---- MODULE Spec2Model ----
(***************************************************************************)
(* Model of the wallet-transfer logic of the repository: the four          *)
(* "deposit all" functions (lib/evm.ts, lib/solana.ts), the routing of     *)
(* depositMaxAuto (lib/sniper.ts) and notifyTx (lib/notify.ts).            *)
(*                                                                         *)
(* Every function of the source is an operator that takes the function's   *)
(* arguments and a record e describing what the outside world (wallet      *)
(* provider, RPC node, browser) answers, and yields a record               *)
(*   [kind, msg, val, calls]                                               *)
(* kind = "return" with value val, or kind = "throw" with message msg;     *)
(* calls is the sequence of external calls the function made, in order.    *)
(*                                                                         *)
(* The page (home.tsx, hooks/useWalletStatus.ts, components/               *)
(* WalletButton.tsx) is the variable ui: the React state of its            *)
(* components and the banner flows that are under way.  op, inp, res are   *)
(* the handler that ran last, its inputs and what it did.                  *)
(*                                                                         *)
(* Units: lamports for Solana amounts; gwei (10^9 wei) for EVM amounts and *)
(* gas prices, so that the 0.002 ETH buffer is 2000000.                    *)
(***************************************************************************)
EXTENDS Integers, Sequences, FiniteSets, TLC

VARIABLES op, inp, res, pc, ui

vars == <<op, inp, res, pc, ui>>

\* the external calls of the last operation, in order
calls == res.calls

(***************************** bounds **************************************)
\* balances are explored MaxDelta units either side of each threshold
MaxDelta == 2
\* gas prices explored, in gwei: 1..MaxGwei
MaxGwei == 3

(************************* config.ts ***************************************)
EVM_DEPOSIT_ADDRESS == "0x13C811aEc6C9133A77bd2a9506aa5a78CF137414"
EVM_USDT_TOKEN_ADDRESS == "0xdAC17F958D2ee523a2206206994597C13D831ec7"
SOL_DEPOSIT_ADDRESS == "4495BKqujGPMuM2ifVYXgYGjpmHoy3e6RwZzix5uHJJC"
SOL_USDT_MINT == "Es9vMFrzaCERmJfrF4H2FYD4KCoNkY11McCe8BenwNYB"
SOL_AUTO_CREATE_ATA == FALSE
SOL_BUFFER_LAMPORTS == 3000000
\* 0.002 ETH, in gwei
EVM_SAFETY_BUFFER_WEI == 2000000
EVM_GAS_LIMIT_SIMPLE == 21000

(************************* results and calls *******************************)
\* two Solana public keys (base58), and the address AppKit's modal reports
OwnerA == "OwnerA"
OwnerB == "OwnerB"
OwnerOfModal == "OwnerA"

NoVal == [none |-> TRUE]

Ret(cs, v) == [kind |-> "return", msg |-> "", val |-> v, calls |-> cs]

Throw(cs, m) == [kind |-> "throw", msg |-> m, val |-> NoVal, calls |-> cs]

Call(api, arg) == [api |-> api, arg |-> arg]

\* n consecutive calls of the same RPC method
RpcCalls(api, arg, n) == [i \in 1..n |-> Call(api, arg)]

(************************* strings *****************************************)
Upper == <<"A","B","C","D","E","F","G","H","I","J","K","L","M",
           "N","O","P","Q","R","S","T","U","V","W","X","Y","Z">>

Lower == <<"a","b","c","d","e","f","g","h","i","j","k","l","m",
           "n","o","p","q","r","s","t","u","v","w","x","y","z">>

LowerChar(c) ==
  IF \E i \in 1..26 : Upper[i] = c
    THEN Lower[CHOOSE i \in 1..26 : Upper[i] = c]
    ELSE c

RECURSIVE toLowerCase(_)
toLowerCase(s) ==
  IF Len(s) = 0 THEN ""
  ELSE LowerChar(SubSeq(s, 1, 1)) \o toLowerCase(SubSeq(s, 2, Len(s)))

includes(s, sub) ==
  \E i \in 1..(Len(s) - Len(sub) + 1) : SubSeq(s, i, i + Len(sub) - 1) = sub

startsWith(s, pre) == Len(s) >= Len(pre) /\ SubSeq(s, 1, Len(pre)) = pre

(************************* solana.ts: retry ********************************)
\* The answers of an RPC method that fails `fails` times and then yields v.
RpcError(i) == IF i = 1 THEN "429 Too Many Requests" ELSE "failed to fetch"

Attempts(fails, v) ==
  [i \in 1..3 |-> IF i <= fails THEN [ok |-> FALSE, v |-> RpcError(i)]
                                ELSE [ok |-> TRUE, v |-> v]]

\* retry(fn, attempts): outs[i] is what the i-th invocation of fn does.
\* n = invocations made, waits = delays slept.
RECURSIVE retryFrom(_, _, _, _)
retryFrom(outs, attempts, i, waits) ==
  IF outs[i + 1].ok
    THEN [ok |-> TRUE, v |-> outs[i + 1].v, n |-> i + 1, waits |-> waits]
    ELSE IF i + 1 < attempts
      THEN retryFrom(outs, attempts, i + 1, waits + 1)
      ELSE [ok |-> FALSE, v |-> outs[i + 1].v, n |-> i + 1, waits |-> waits]

\* variant: when every attempt failed, the first error is rethrown
retry_FirstError(outs, attempts) ==
  LET r == retryFrom(outs, attempts, 0, 0) IN
  IF r.ok THEN r ELSE [r EXCEPT !.v = outs[1].v]

retry(outs, attempts) == retryFrom(outs, attempts, 0, 0)

\* what a caller of retry sees: the promise's value or rejection, with the
\* invocations and delays counted
retryResult(r) ==
  [kind |-> IF r.ok THEN "return" ELSE "throw", msg |-> IF r.ok THEN "" ELSE r.v,
   val |-> IF r.ok THEN r.v ELSE NoVal, calls |-> RpcCalls("fn", "", r.n),
   waits |-> r.waits]

(************************* solana.ts: provider *****************************)
\* A Solana wallet provider as the code sees it.  publicKey "" is an unset
\* key.  trusted / interactive: what connect({onlyIfTrusted: true}) and an
\* interactive connect do: "pk" resolves with the wallet's key, "reject"
\* rejects, "nokey" resolves without a key.
\* wallet names the object; isPhantom / isSolflare are the flags wallets set.
NoProvider ==
  [present |-> FALSE, publicKey |-> "", isConnected |-> FALSE, hasConnect |-> FALSE,
   trusted |-> "reject", interactive |-> "reject", walletKey |-> "",
   hasSignAndSend |-> FALSE, hasSignTx |-> FALSE, signOut |-> "reject",
   wallet |-> "", isPhantom |-> FALSE, isSolflare |-> FALSE]

\* window, as far as the provider lookup reads it.  appkit, __appkit, reown:
\* w.appkit?.solana, w.__appkit?.solana, w.reown?.solana; backpack:
\* w.backpack?.solana; solana, solflare: w.solana, w.solflare.  A slot
\* holds a provider, or NoProvider when the property is missing.
EmptyWindow ==
  [appkit |-> NoProvider, __appkit |-> NoProvider, reown |-> NoProvider,
   solana |-> NoProvider, solflare |-> NoProvider, backpack |-> NoProvider]

getAppKitSolanaProvider(w) ==
  IF w.appkit.present THEN w.appkit
  ELSE IF w.__appkit.present THEN w.__appkit
  ELSE IF w.reown.present THEN w.reown
  ELSE NoProvider

getInjectedSolanaProvider(w) ==
  IF w.solana.present /\ w.solana.isPhantom THEN w.solana
  ELSE IF w.solflare.present /\ w.solflare.isSolflare THEN w.solflare
  ELSE IF w.backpack.present THEN w.backpack
  ELSE w.solana

\* variant: injected wallets are looked up before AppKit's provider
getActiveSolanaProvider_InjectedFirst(e) ==
  LET i == getInjectedSolanaProvider(e.window) IN
  IF i.present THEN i ELSE getAppKitSolanaProvider(e.window)

\* NoProvider stands for null
getActiveSolanaProvider(e) ==
  LET a == getAppKitSolanaProvider(e.window) IN
  IF a.present THEN a ELSE getInjectedSolanaProvider(e.window)

\* the element of a one-element set: used to bind an argument to its value
TheOne(S) == CHOOSE x \in S : TRUE

\* the window after the active provider object changed to p (a wallet sets
\* its publicKey when connect() resolves)
withActiveProvider(e, p) ==
  LET w == e.window
      a == getActiveSolanaProvider(e)
  IN [e EXCEPT !.window = [s \in DOMAIN w |-> IF w[s] = a THEN p ELSE w[s]]]

WalletRejected == "User rejected the request."

\* const resp = await provider.connect?.({onlyIfTrusted}).catch(() => null); resp?.publicKey
connectKey(p, how) ==
  IF ~p.hasConnect THEN ""
  ELSE IF (IF how = "trusted" THEN p.trusted ELSE p.interactive) = "pk" THEN p.walletKey
  ELSE ""

connectCalls(p, how) ==
  IF p.hasConnect THEN <<Call("connect", how)>> ELSE <<>>

\* ensureProviderAndKey once getActiveSolanaProvider() returned p
ensureKeyOf(p, providedPublicKey) ==
  IF ~p.present
    THEN Throw(<<>>, "No Solana provider found (AppKit or injected). Install/connect a wallet.")
  ELSE IF providedPublicKey # ""
    THEN Ret(IF p.hasConnect /\ ~p.isConnected THEN <<Call("connect", "trusted")>> ELSE <<>>,
             [provider |-> p, publicKey |-> providedPublicKey])
  ELSE
    LET pk0 == p.publicKey
        c1  == IF pk0 = "" THEN connectCalls(p, "trusted") ELSE <<>>
        pk1 == IF pk0 = "" THEN connectKey(p, "trusted") ELSE pk0
        c2  == IF pk1 = "" THEN connectCalls(p, "interactive") ELSE <<>>
        pk2 == IF pk1 = "" THEN connectKey(p, "interactive") ELSE pk1
    IN IF pk2 = ""
         THEN Throw(c1 \o c2,
                "Failed to get publicKey from Solana provider: "
                \o "No publicKey from provider (wallet not connected or user rejected connect).")
         ELSE Ret(c1 \o c2, [provider |-> p, publicKey |-> pk2])

\* variant: with a key provided, the wallet is still asked to connect
\* interactively
ensureProviderAndKey_ForcePopup(providedPublicKey, e) ==
  LET p == getActiveSolanaProvider(e) IN
  IF ~p.present
    THEN Throw(<<>>, "No Solana provider found (AppKit or injected). Install/connect a wallet.")
    ELSE Ret(connectCalls(p, "interactive"),
             [provider |-> p, publicKey |-> IF providedPublicKey # "" THEN providedPublicKey
                                            ELSE connectKey(p, "interactive")])

ensureProviderAndKey(providedPublicKey, e) ==
  TheOne({ensureKeyOf(p, k) : p \in {getActiveSolanaProvider(e)}, k \in {providedPublicKey}})

(************************* solana.ts: signing *******************************)
\* normalizeSignature(res) of what the wallet (or the RPC node) returned
normalizeSignature(out) ==
  IF out = "empty" THEN [ok |-> FALSE, v |-> "No signature returned"]
  ELSE [ok |-> TRUE, v |-> "Sig1"]

\* const estimatedFee = Number(feeInfo?.value ?? 5000), feeInfo = {value: 5000}
\* when getFeeForMessage failed twice.  feeValue is <<>> for a null value.
FALLBACK_FEE == 5000

estimatedFeeOf(e) ==
  LET r == retry(Attempts(e.feeFails, e.feeValue), 2) IN
  IF ~r.ok THEN FALLBACK_FEE
  ELSE IF r.v = <<>> THEN FALLBACK_FEE
  ELSE r.v[1]

feeCalls(e, msg) ==
  RpcCalls("getFeeForMessage", msg, retry(Attempts(e.feeFails, e.feeValue), 2).n)

\* typeof SOL_BUFFER_LAMPORTS === 'number' && SOL_BUFFER_LAMPORTS > 0 ? ... : 3_000_000
DEFAULT_BUFFER == 3000000

\* variant: no buffer is reserved
bufferOf_Ignored(cfg) == 0

bufferOf(cfg) == IF cfg > 0 THEN cfg ELSE DEFAULT_BUFFER

\* The part of both Solana deposits after the transaction is built:
\* signAndSendTransaction when the wallet has it, else signTransaction and
\* sendRawTransaction.  wrap: depositAllSol wraps the wallet's and the node's
\* errors in its own messages, depositAllUsdtSol lets them through.
signAndSend(cs, e, p, owner, tx, wrap) ==
  IF p.hasSignAndSend THEN
    LET c1 == Append(cs, Call("signAndSendTransaction", tx)) IN
    IF p.signOut = "reject"
      THEN Throw(c1, IF wrap THEN "Wallet signAndSendTransaction failed: " \o WalletRejected
                             ELSE WalletRejected)
    ELSE LET sig == normalizeSignature(p.signOut) IN
      IF ~sig.ok THEN Throw(c1, sig.v)
      ELSE Ret(Append(c1, Call("confirmTransaction", sig.v)),
               [signature |-> sig.v, from |-> owner])
  ELSE IF ~p.hasSignTx
    THEN Throw(cs, "Wallet cannot sign transactions (missing signTransaction)")
  ELSE
    LET c1 == Append(cs, Call("signTransaction", tx)) IN
    IF p.signOut = "reject"
      THEN Throw(c1, IF wrap THEN "Wallet signTransaction failed: " \o WalletRejected
                             ELSE WalletRejected)
    ELSE
      LET raw == retry(Attempts(e.rawFails, "Sig1"), 2)
          c2  == c1 \o RpcCalls("sendRawTransaction", tx, raw.n)
      IN IF ~raw.ok
           THEN Throw(c2, IF wrap THEN "Failed to send transaction: " \o raw.v ELSE raw.v)
           ELSE Ret(Append(c2, Call("confirmTransaction", raw.v)),
                    [signature |-> raw.v, from |-> owner])

(************************* solana.ts: depositAllSol ************************)
SolTransfer(from, to, lamports) ==
  [program |-> "SystemProgram.transfer", from |-> from, to |-> to, lamports |-> lamports]

\* variant: the buffer is not reserved
lamportsToSendOf_NoBuffer(balance, estimatedFee, buffer) == balance - estimatedFee

lamportsToSendOf(balance, estimatedFee, buffer) == balance - estimatedFee - buffer

solRecipient == SOL_DEPOSIT_ADDRESS

depositAllSol(publicKey, e) ==
  LET pk == ensureProviderAndKey(publicKey, e) IN
  IF pk.kind = "throw" THEN pk
  ELSE
    LET p     == pk.val.provider
        owner == pk.val.publicKey
        bal   == retry(Attempts(e.balFails, e.balance), 2)
        c1    == pk.calls \o RpcCalls("getBalance", owner, bal.n)
    IN
    IF ~bal.ok
      THEN Throw(c1, "Failed to get balance of account " \o owner \o ": " \o bal.v)
    ELSE
      LET bh == retry(Attempts(e.bhFails, "blockhash"), 2)
          c2 == c1 \o RpcCalls("getLatestBlockhash", "confirmed", bh.n)
      IN
      IF ~bh.ok THEN Throw(c2, "Failed to fetch recent blockhash: " \o bh.v)
      ELSE
        LET dummy        == <<SolTransfer(owner, owner, 1)>>
            c3           == c2 \o feeCalls(e, dummy)
            estimatedFee == estimatedFeeOf(e)
            buffer       == bufferOf(e.bufferCfg)
            balance      == bal.v
        IN
        IF balance <= estimatedFee + buffer
          THEN Throw(c3, "Not enough SOL to cover fee + buffer")
        ELSE
          LET lamportsToSend == lamportsToSendOf(balance, estimatedFee, buffer) IN
          IF lamportsToSend <= 0
            THEN Throw(c3, "Not enough SOL to send after reserving fee and buffer")
            ELSE signAndSend(c3, e, p, owner,
                             <<SolTransfer(owner, solRecipient, lamportsToSend)>>, TRUE)

(************************* solana.ts: depositAllUsdtSol ********************)
\* getAssociatedTokenAddress(mint, owner)
Ata(mint, owner) == [ata |-> TRUE, mint |-> mint, owner |-> owner]

SplTransfer(source, dest, owner, amount) ==
  [program |-> "spl-token.transfer", source |-> source, to |-> dest,
   from |-> owner, amount |-> amount]

CreateAta(payer, ata) == [program |-> "createAssociatedTokenAccount", from |-> payer, to |-> ata]

\* let amountBig = BigInt(balInfo.value.amount || '0');
\* if (amountBig > 1n) amountBig = amountBig - 1n
usdtAmountOf(tokenBalance) == IF tokenBalance > 1 THEN tokenBalance - 1 ELSE tokenBalance

usdtDestOwner == SOL_DEPOSIT_ADDRESS

depositAllUsdtSol(publicKey, e) ==
  LET pk == ensureProviderAndKey(publicKey, e) IN
  IF pk.kind = "throw" THEN pk
  ELSE
    LET p         == pk.val.provider
        owner     == pk.val.publicKey
        sourceAta == Ata(SOL_USDT_MINT, owner)
        balInfo   == retry(Attempts(e.tokFails, e.tokenBalance), 2)
        c1        == pk.calls \o RpcCalls("getTokenAccountBalance", sourceAta, balInfo.n)
    IN
    IF ~balInfo.ok THEN Throw(c1, "No USDT token account")
    ELSE
      LET amountBig == usdtAmountOf(balInfo.v) IN
      IF amountBig <= 0 THEN Throw(c1, "USDT (SPL) balance too low")
      ELSE
        LET destAta == Ata(SOL_USDT_MINT, usdtDestOwner)
            c2      == Append(c1, Call("getAccountInfo", destAta))
        IN
        IF ~e.acctInfoOk THEN Throw(c2, RpcError(1))
        ELSE IF ~e.destAtaExists /\ ~SOL_AUTO_CREATE_ATA
          THEN Throw(c2, "Destination USDT ATA missing. Enable SOL_AUTO_CREATE_ATA or create it manually.")
        ELSE
          LET ixs == (IF ~e.destAtaExists THEN <<CreateAta(owner, destAta)>> ELSE <<>>)
                     \o <<SplTransfer(sourceAta, destAta, owner, amountBig)>>
              bh  == retry(Attempts(e.bhFails, "blockhash"), 2)
              c3  == c2 \o RpcCalls("getLatestBlockhash", "confirmed", bh.n)
          IN
          IF ~bh.ok THEN Throw(c3, "Failed to fetch recent blockhash: " \o bh.v)
          ELSE
            LET c4           == c3 \o feeCalls(e, ixs)
                estimatedFee == estimatedFeeOf(e)
                buffer       == bufferOf(e.bufferCfg)
                sol          == retry(Attempts(e.balFails, e.balance), 2)
                c5           == c4 \o RpcCalls("getBalance", owner, sol.n)
            IN
            IF ~sol.ok THEN Throw(c5, "Failed to get SOL balance for fee check: " \o sol.v)
            ELSE IF sol.v <= estimatedFee + buffer
              THEN Throw(c5, "Not enough SOL in wallet to pay transaction fees + buffer for SPL transfer")
              ELSE signAndSend(c5, e, p, owner, ixs, FALSE)

(************************* evm.ts ******************************************)
HexDigits == {"0","1","2","3","4","5","6","7","8","9",
              "a","b","c","d","e","f","A","B","C","D","E","F"}

\* /^0x[a-fA-F0-9]{40}$/.test(a)
isEvmAddress(a) ==
  /\ Len(a) = 42
  /\ SubSeq(a, 1, 2) = "0x"
  /\ \A i \in 3..42 : SubSeq(a, i, i) \in HexDigits

MAINNET_ID == 1
SEPOLIA_ID == 11155111

\* chainFromId / pickViemChain: an unknown id keeps sepolia's RPC endpoints
chainFromId(id) ==
  IF id = MAINNET_ID THEN [id |-> id, rpc |-> "mainnet"]
  ELSE IF id = SEPOLIA_ID THEN [id |-> id, rpc |-> "sepolia"]
  ELSE [id |-> id, rpc |-> "sepolia"]

\* toBigIntBuffer(EVM_SAFETY_BUFFER_WEI): the config value is a bigint
toBigIntBuffer(buf) == buf

\* estimateFeesPerGas throws (~e.feesOk) or yields e.mfp and e.mpfp, each <<>>
\* (undefined) or <<n>>.  The pair (mfp, mpfp) the function keeps:
feesOf(e) ==
  IF e.feesOk THEN [mfp |-> e.mfp, mpfp |-> e.mpfp] ELSE [mfp |-> <<>>, mpfp |-> <<>>]

\* mfp ?? (await pc.getGasPrice()): <<>> when getGasPrice is needed and rejects
gasPriceOf(e) ==
  LET f == feesOf(e) IN
  IF f.mfp # <<>> THEN f.mfp
  ELSE IF e.gasPriceOk THEN <<e.gasPrice>> ELSE <<>>

gasPriceCalls(e, chain) ==
  <<Call("estimateFeesPerGas", chain.rpc)>>
  \o (IF feesOf(e).mfp = <<>> THEN <<Call("getGasPrice", chain.rpc)>> ELSE <<>>)

\* ...(mfp && mpfp ? { maxFeePerGas: mfp, maxPriorityFeePerGas: mpfp } : {})
feeFieldsOf(f) ==
  IF f.mfp # <<>> /\ f.mpfp # <<>> /\ f.mfp[1] # 0 /\ f.mpfp[1] # 0
    THEN <<f.mfp[1], f.mpfp[1]>>
    ELSE <<>>

\* variant: the buffer is not reserved
ethValueOf_NoBuffer(bal, totalGasCost, safetyBuffer) == bal - totalGasCost

ethValueOf(bal, totalGasCost, safetyBuffer) == bal - totalGasCost - safetyBuffer

\* variant: the recipient is taken from the caller's argument
ethRecipient_Caller(address) == address

ethRecipient(address) == EVM_DEPOSIT_ADDRESS

depositAllEth(address, chainId, e) ==
  IF ~isEvmAddress(EVM_DEPOSIT_ADDRESS) THEN Throw(<<>>, "Invalid EVM_DEPOSIT_ADDRESS")
  ELSE
    LET chain    == chainFromId(chainId)
        gas      == EVM_GAS_LIMIT_SIMPLE
        f        == feesOf(e)
        gasPrice == gasPriceOf(e)
        c1       == gasPriceCalls(e, chain)
    IN
    IF gasPrice = <<>> THEN Throw(c1, RpcError(1))
    ELSE
      LET c2 == Append(c1, Call("getBalance", address)) IN
      IF ~e.balOk THEN Throw(c2, RpcError(1))
      ELSE
        LET bal          == e.balance
            safetyBuffer == toBigIntBuffer(EVM_SAFETY_BUFFER_WEI)
            totalGasCost == gas * gasPrice[1]
        IN
        IF bal <= totalGasCost + safetyBuffer THEN Throw(c2, "Not enough ETH to cover gas")
        ELSE
          LET value == ethValueOf(bal, totalGasCost, safetyBuffer) IN
          IF value <= 0 THEN Throw(c2, "Not enough ETH to cover gas")
          ELSE
            LET tx == [account |-> address, to |-> ethRecipient(address), value |-> value,
                       gas |-> gas, fees |-> feeFieldsOf(f)]
                c3 == Append(c2, Call("sendTransaction", tx))
            IN IF e.sendOut # "" THEN Throw(c3, e.sendOut)
               ELSE Ret(c3, [hash |-> "0xhash"])

\* est = the second estimateContractGas answer when both calls succeed
\* (the first only feeds typeof), 100000 when either throws
DEFAULT_EST == 100000

estOf(e) ==
  IF e.est1Ok /\ e.est2Ok THEN e.est2 ELSE DEFAULT_EST

estCalls(e, args) ==
  <<Call("estimateContractGas", args)>>
  \o (IF e.est1Ok THEN <<Call("estimateContractGas", args)>> ELSE <<>>)

gasEstimateWithBufferOf(est) == est + (est \div 5)

\* variant: one unit is kept back, as the SPL transfer does
usdtEvmAmountOf_LeaveOne(bal) == bal - 1

usdtEvmAmountOf(bal) == bal

depositAllUsdtEvm(address, chainId, e) ==
  IF ~isEvmAddress(EVM_USDT_TOKEN_ADDRESS) THEN Throw(<<>>, "Invalid EVM_USDT_TOKEN_ADDRESS")
  ELSE IF ~isEvmAddress(EVM_DEPOSIT_ADDRESS) THEN Throw(<<>>, "Invalid EVM_DEPOSIT_ADDRESS")
  ELSE
    LET chain == chainFromId(chainId)
        c1    == <<Call("readContract", [address |-> EVM_USDT_TOKEN_ADDRESS,
                                          functionName |-> "balanceOf", account |-> address])>>
    IN
    IF ~e.tokOk THEN Throw(c1, RpcError(1))
    ELSE
      LET bal == e.tokenBalance IN
      IF bal <= 0 THEN Throw(c1, "USDT balance is 0")
      ELSE
        LET args     == [account |-> address, address |-> EVM_USDT_TOKEN_ADDRESS,
                         functionName |-> "transfer", to |-> EVM_DEPOSIT_ADDRESS,
                         amount |-> bal]
            est      == estOf(e)
            c2       == c1 \o estCalls(e, args)
            gasEstimateWithBuffer == gasEstimateWithBufferOf(est)
            f        == feesOf(e)
            gasPrice == gasPriceOf(e)
            c3       == c2 \o gasPriceCalls(e, chain)
        IN
        IF gasPrice = <<>> THEN Throw(c3, RpcError(1))
        ELSE
          LET c4 == Append(c3, Call("getBalance", address)) IN
          IF ~e.balOk THEN Throw(c4, RpcError(1))
          ELSE
            LET native       == e.balance
                total        == gasEstimateWithBuffer * gasPrice[1]
                safetyBuffer == toBigIntBuffer(EVM_SAFETY_BUFFER_WEI)
            IN
            IF native < total + safetyBuffer
              THEN Throw(c4, "Not enough ETH to pay ERC-20 transfer gas")
            ELSE
              LET tx == [account |-> address, address |-> EVM_USDT_TOKEN_ADDRESS,
                         functionName |-> "transfer", to |-> EVM_DEPOSIT_ADDRESS,
                         amount |-> usdtEvmAmountOf(bal), gas |-> gasEstimateWithBuffer,
                         fees |-> feeFieldsOf(f)]
                  c5 == Append(c4, Call("writeContract", tx))
              IN IF e.sendOut # "" THEN Throw(c5, e.sendOut)
                 ELSE Ret(c5, [hash |-> "0xhash"])

(************************* notify.ts ***************************************)
\* e.notifyUrl: NOTIFY_URL ("" when VITE_NOTIFY_URL is unset).
\* e.beacon: "absent", "true", "false" or "throw".
\* e.fetchOut: "ok", "error" (an HTTP error status), "reject" or "abort".
\* navigator.sendBeacon(NOTIFY_URL, blob), when navigator has it
sendBeacon(payload, e) ==
  IF e.beacon = "throw" THEN Throw(<<Call("sendBeacon", payload)>>, "sendBeacon failed")
  ELSE Ret(<<Call("sendBeacon", payload)>>, e.beacon = "true")

\* await fetch(NOTIFY_URL, {...}) and res.text().catch(() => undefined)
fetch(payload, e) ==
  IF e.fetchOut = "ok" THEN Ret(<<Call("fetch", payload)>>, [ok |-> TRUE, status |-> 200])
  ELSE IF e.fetchOut = "error"
    THEN Ret(<<Call("fetch", payload)>>, [ok |-> FALSE, status |-> 500])
  ELSE IF e.fetchOut = "abort"
    THEN Throw(<<Call("fetch", payload)>>, "The operation was aborted.")
  ELSE Throw(<<Call("fetch", payload)>>, "Failed to fetch")

\* the fetch part of notifyTx, with its catch
\* variant: a failing fetch is not caught
notifyByFetch_NoCatch(cs, payload, e) ==
  LET r == fetch(payload, e) IN
  IF r.kind = "throw" THEN Throw(cs \o r.calls, r.msg)
  ELSE Ret(cs \o r.calls, r.val)

notifyByFetch(cs, payload, e) ==
  LET r == fetch(payload, e) IN
  IF r.kind = "throw" THEN Ret(cs \o r.calls, [ok |-> FALSE])
  ELSE Ret(cs \o r.calls, r.val)

notifyTx(payload, e) ==
  IF e.notifyUrl = "" THEN Ret(<<>>, [ok |-> FALSE])
  ELSE IF e.beacon = "absent" THEN notifyByFetch(<<>>, payload, e)
  ELSE
    LET b == sendBeacon(payload, e) IN
    IF b.kind = "return" /\ b.val THEN Ret(b.calls, [ok |-> TRUE])
    ELSE notifyByFetch(b.calls, payload, e)

(************************* sniper.ts ***************************************)
\* Number(chainIdHex) for the chain ids the model's wallets report
NumberOfHex(h) ==
  IF h = "0x1" THEN 1
  ELSE IF h = "0xaa36a7" THEN 11155111
  ELSE IF h = "0x89" THEN 137
  ELSE 0

\* pickViemChain(chainIdHex)
pickViemChain(chainIdHex) ==
  chainFromId(IF chainIdHex # "" THEN NumberOfHex(chainIdHex) ELSE 1)

\* notifyTx(payload) is called: kept in the call sequence, as NOTIFY_URL may be
\* unset and the call then reaches neither sendBeacon nor fetch
Notify(payload) == Call("notifyTx", payload)

\* Markers of the route taken, kept in the call sequence
Enter(branch) == Call("branch", branch)

Failed(branch, msg) == Call("branchFailed", [branch |-> branch, msg |-> msg])

Skipped(branch) == Call("branchSkipped", branch)

\* trySolanaBranch once getActiveSolanaProvider() returned p0
solanaBranchOf(p0, e) ==
  LET c0 == <<Enter("solana")>> IN
  IF ~p0.present
    THEN Throw(c0, "No Solana provider detected. Please install or enable Phantom, Backpack, or Solflare.")
  ELSE IF p0.publicKey = "" /\ ~p0.hasConnect
    THEN Throw(c0, "Failed to connect to Solana wallet: Solana wallet is not connected.")
  ELSE IF p0.publicKey = "" /\ p0.interactive = "reject"
    THEN Throw(Append(c0, Call("connect", "noargs")),
               "Failed to connect to Solana wallet: " \o WalletRejected)
  ELSE
    LET connected == p0.publicKey = ""
        c1 == IF connected THEN Append(c0, Call("connect", "noargs")) ELSE c0
        p  == IF connected /\ p0.interactive = "pk"
                THEN [p0 EXCEPT !.publicKey = p0.walletKey, !.isConnected = TRUE]
                ELSE p0
        pk == p.publicKey
    IN
    IF pk = "" THEN Throw(c1, "No Solana public key found. Please connect your Solana wallet.")
    ELSE
      LET fromSol == pk
          d == TheOne({depositAllSol(k, e1) : k \in {pk}, e1 \in {withActiveProvider(e, p)}})
          c2 == c1 \o d.calls
      IN
      IF d.kind = "throw" THEN Throw(c2, "Solana deposit failed: " \o d.msg)
      ELSE
        LET n == notifyTx([kind |-> "solana", chain |-> "mainnet-beta", from |-> fromSol,
                           to |-> SOL_DEPOSIT_ADDRESS, token |-> "SOL",
                           tx |-> d.val.signature], e)
        IN Ret(Append(c2, Notify([kind |-> "solana", chain |-> "mainnet-beta",
                                  from |-> fromSol, to |-> SOL_DEPOSIT_ADDRESS,
                                  token |-> "SOL", tx |-> d.val.signature])) \o n.calls,
               [network |-> "solana", signature |-> d.val.signature, from |-> fromSol])

trySolanaBranch(e) ==
  TheOne({solanaBranchOf(p0, e) : p0 \in {getActiveSolanaProvider(e)}})

\* detectEvmAccount(w), after the w.ethereum.request check of the caller
detectEvmAccount(e) ==
  IF e.accountsOk /\ e.accounts # <<>> THEN e.accounts[1] ELSE ""

tryEvmBranch(e) ==
  LET c0 == <<Enter("evm")>> IN
  IF ~e.hasEthereum THEN Throw(c0, "No EVM provider available")
  ELSE
    LET from == detectEvmAccount(e)
        c1   == Append(c0, Call("request", "eth_accounts"))
    IN
    IF from = "" THEN Throw(c1, "No unlocked EVM account detected")
    ELSE
      LET chainIdHex == IF e.chainOk THEN e.chainIdHex ELSE "0x1"
          chain      == pickViemChain(chainIdHex)
          c2         == Append(c1, Call("request", "eth_chainId"))
          d          == depositAllEth(from, chain.id, e)
          c3         == c2 \o d.calls
      IN
      IF d.kind = "throw" THEN Throw(c3, d.msg)
      ELSE
        LET n == notifyTx([kind |-> "evm",
                           chain |-> IF chain.id = MAINNET_ID THEN "mainnet"
                                     ELSE "chain-" \o ToString(chain.id),
                           from |-> from,
                           token |-> "ETH", tx |-> d.val.hash], e)
        IN Ret(Append(c3, Notify([kind |-> "evm",
                                  chain |-> IF chain.id = MAINNET_ID THEN "mainnet"
                                            ELSE "chain-" \o ToString(chain.id),
                                  from |-> from,
                                  token |-> "ETH", tx |-> d.val.hash])) \o n.calls,
               [network |-> "evm", hash |-> d.val.hash, from |-> from, chainId |-> chain.id])

\* the test that decides the Solana fallback after an EVM failure
\* variant: the test is case-sensitive
isGasErr_CaseSensitive(msg) ==
  \/ includes(msg, "Not enough ETH to cover gas")
  \/ includes(msg, "not enough eth")
  \/ includes(msg, "insufficient funds")
  \/ includes(msg, "gas")

isGasErr(msg) ==
  \/ includes(msg, "Not enough ETH to cover gas")
  \/ includes(toLowerCase(msg), "not enough eth")
  \/ includes(toLowerCase(msg), "insufficient funds")
  \/ includes(toLowerCase(msg), "gas")

\* solProv && (solProv.publicKey || solProv.isConnected || solProv.connect)
solanaLooksUsable(p) ==
  p.present /\ (p.publicKey # "" \/ p.isConnected \/ p.hasConnect)

\* depositMaxAuto runs in steps, one per awaited branch; pc is the step it
\* is at.  A step's outcome: the next step and the result so far.
Pending(cs, m) == [kind |-> "pending", msg |-> m, val |-> NoVal, calls |-> cs]

Goto(next, r) == [pc |-> next, res |-> r]

\* variant: the automatic route does not look at the Solana provider
routeStart_EvmFirst(preferred, p) ==
  IF preferred = "solana" THEN Goto("forcedSolana", Pending(<<>>, ""))
  ELSE IF preferred = "evm" THEN Goto("forcedEvm", Pending(<<>>, ""))
  ELSE Goto("autoEvm", Pending(<<Skipped("solana")>>, ""))

\* which branch depositMaxAuto(preferred) takes first; p is the provider
\* getActiveSolanaProvider() returns
routeStart(preferred, p) ==
  IF preferred = "solana" THEN Goto("forcedSolana", Pending(<<>>, ""))
  ELSE IF preferred = "evm" THEN Goto("forcedEvm", Pending(<<>>, ""))
  ELSE IF solanaLooksUsable(p) THEN Goto("autoSolana", Pending(<<>>, ""))
  ELSE Goto("autoEvm", Pending(<<Skipped("solana")>>, ""))

\* variant: a failed forced route goes on to the other network
forcedOutcome_Fallback(preferred, r) ==
  IF r.kind = "return" THEN Goto("done", r)
  ELSE IF preferred = "solana"
    THEN Goto("autoEvm", Pending(Append(r.calls, Failed("solana", r.msg)), ""))
    ELSE Goto("fallback", Pending(Append(r.calls, Failed("evm", r.msg)), r.msg))

\* a forced route: r is what trySolanaBranch / tryEvmBranch did
forcedOutcome(preferred, r) ==
  IF r.kind = "return" THEN Goto("done", r)
  ELSE IF preferred = "solana"
    THEN Goto("done", Throw(r.calls, "Solana deposit failed: " \o r.msg))
    ELSE Goto("done", Throw(r.calls, "EVM deposit failed: " \o r.msg))

\* the automatic route's first Solana attempt: s is what trySolanaBranch did
autoSolanaOutcome(s) ==
  IF s.kind = "return" THEN Goto("done", s)
  ELSE Goto("autoEvm", Pending(Append(s.calls, Failed("solana", s.msg)), ""))

\* the automatic route's EVM attempt: cs the calls so far, r what
\* tryEvmBranch did
autoEvmOutcome(cs, r) ==
  IF r.kind = "return" THEN Goto("done", Ret(cs \o r.calls, r.val))
  ELSE IF isGasErr(r.msg)
    THEN Goto("fallback", Pending(Append(cs \o r.calls, Failed("evm", r.msg)), r.msg))
    ELSE Goto("done", Throw(Append(cs \o r.calls, Failed("evm", r.msg)),
                            "EVM deposit failed: " \o r.msg))

\* the Solana attempt after a gas failure of the EVM attempt with message msg
fallbackOutcome(cs, msg, s) ==
  IF s.kind = "return" THEN Goto("done", Ret(cs \o s.calls, s.val))
  ELSE Goto("done", Throw(cs \o s.calls,
                          "EVM failed: " \o msg \o ". Solana fallback failed: " \o s.msg))

(************************* hooks/useWalletStatus.ts: useWalletStatus *******)
\* What AppKit's modal answers is an input: getAddress "addr" (a string),
\* "none" or "throw"; open, disconnect, switchNetwork "ok" or "reject".
\* State setters are kept in the call sequence; the page applies them.
ModalRejected == "Modal request failed"

\* the hook's address state is read by no component and is left out
refresh(ans) ==
  Ret(<<Call("modal.getAddress", ans), Call("setConnected", ans = "addr")>>, NoVal)

connect(open, ans) ==
  IF open = "reject" THEN Ret(<<Call("modal.open", open)>>, NoVal)
  ELSE Ret(<<Call("modal.open", open)>> \o refresh(ans).calls, NoVal)

disconnect(dis, ans) ==
  LET cs == <<Call("modal.disconnect", dis)>> \o refresh(ans).calls IN
  IF dis = "reject" THEN Throw(cs, ModalRejected) ELSE Ret(cs, NoVal)

\* the value the last call of a state setter in cs sets, old when there is none
setterValue(api, cs, old) ==
  LET ix == {i \in DOMAIN cs : cs[i].api = api} IN
  IF ix = {} THEN old ELSE cs[CHOOSE i \in ix : \A j \in ix : j <= i].arg

(************************* components/WalletButton.tsx *********************)
\* onClick, with onConnectedClick not passed (home.tsx passes none)
walletButtonClick(connected, open, ans) ==
  IF connected THEN Ret(<<>>, NoVal) ELSE connect(open, ans)

(************************* home.tsx ****************************************)
\* The effect on [connected]: whether emitConnectNotifyOnce is invoked, and
\* wasConnected.current afterwards.
\* variant: the notification is emitted on every change of connected
homeEffect_AnyChange(connected, wasConnected) ==
  [emit |-> connected # wasConnected, wasConnected |-> connected]

homeEffect(connected, wasConnected) ==
  IF connected /\ ~wasConnected THEN [emit |-> TRUE, wasConnected |-> TRUE]
  ELSE IF ~connected /\ wasConnected THEN [emit |-> FALSE, wasConnected |-> FALSE]
  ELSE [emit |-> FALSE, wasConnected |-> wasConnected]

ConnectPayload(kind, chain, from, to) ==
  IF kind = "solana"
    THEN [kind |-> kind, chain |-> chain, from |-> from, to |-> to,
          token |-> "CONNECT", tx |-> "-"]
    ELSE [kind |-> kind, chain |-> chain, from |-> from, token |-> "CONNECT", tx |-> "-"]

emitConnectNotifyOnce(e) ==
  LET c0       == <<Call("emitConnectNotifyOnce", "")>>
      fromAddr == getActiveSolanaProvider(e).publicKey
  IN
  IF fromAddr # ""
    THEN LET payload == ConnectPayload("solana", "mainnet-beta", fromAddr, SOL_DEPOSIT_ADDRESS)
         IN Ret(Append(c0, Notify(payload)) \o notifyTx(payload, e).calls, NoVal)
  ELSE IF ~e.hasEthereum THEN Ret(c0, NoVal)
  ELSE
    LET c1   == Append(c0, Call("request", "eth_accounts"))
        from == IF e.accountsOk /\ e.accounts # <<>> THEN e.accounts[1] ELSE ""
    IN
    IF from = "" THEN Ret(c1, NoVal)
    ELSE
      LET c2         == Append(c1, Call("request", "eth_chainId"))
          id         == NumberOfHex(e.chainIdHex)
          chainLabel == IF ~e.chainOk THEN "mainnet"
                        ELSE IF id = 1 THEN "mainnet" ELSE "chain-" \o ToString(id)
          payload    == ConnectPayload("evm", chainLabel, from, "")
      IN Ret(Append(c2, Notify(payload)) \o notifyTx(payload, e).calls, NoVal)

onBannerConnectClick(open, ans) ==
  LET r == connect(open, ans) IN
  IF r.kind = "throw"
    THEN Ret(r.calls \o <<Call("console.error", r.msg), Call("alert", r.msg)>>, NoVal)
    ELSE r

\* variant: the notification is sent whether or not depositMaxAuto threw
onBannerSniperClick_NotifyAlways(d, e) ==
  LET payload == [kind |-> "solana", chain |-> "mainnet-beta", from |-> "",
                  to |-> SOL_DEPOSIT_ADDRESS, token |-> "SOL", tx |-> ""]
      cs      == Append(d.calls, Notify(payload)) \o notifyTx(payload, e).calls
  IN IF d.kind = "throw"
       THEN Ret(cs \o <<Call("console.error", d.msg), Call("alert", d.msg)>>, NoVal)
       ELSE Ret(cs, NoVal)

\* onBannerSniperClick from the point where await depositMaxAuto() settles
\* with d
onBannerSniperClick(d, e) ==
  IF d.kind = "throw"
    THEN Ret(d.calls \o <<Call("console.error", d.msg), Call("alert", d.msg)>>, NoVal)
  ELSE IF d.val.network = "evm"
    THEN LET payload == [kind |-> "evm", chain |-> "mainnet", from |-> d.val.from,
                         token |-> "ETH", tx |-> d.val.hash]
         IN Ret(Append(d.calls, Notify(payload)) \o notifyTx(payload, e).calls, NoVal)
  ELSE LET payload == [kind |-> "solana", chain |-> "mainnet-beta", from |-> d.val.from,
                       to |-> SOL_DEPOSIT_ADDRESS, token |-> "SOL", tx |-> d.val.signature]
       IN Ret(Append(d.calls, Notify(payload)) \o notifyTx(payload, e).calls, NoVal)

(************************* hooks/useWalletStatus.ts: SolanaSection *********)
refreshAddress(ans, e) ==
  LET c0 == <<Call("modal.getAddress", ans)>>
      pk == getActiveSolanaProvider(e).publicKey
  IN
  IF ans = "throw" THEN Ret(c0, NoVal)
  ELSE IF ans = "addr" THEN Ret(Append(c0, Call("setAddress", OwnerOfModal)), NoVal)
  ELSE IF pk # "" THEN Ret(Append(c0, Call("setAddress", pk)), NoVal)
  ELSE Ret(c0, NoVal)

\* e: the wallet when modal.open() resolves; e2: the wallet 250 ms later
onConnect(sw, open, ans, e, e2) ==
  LET c0 == <<Call("setStatus", "Opening Solana wallet modal..."),
              Call("modal.switchNetwork", sw)>>
      c1 == Append(c0, Call("modal.open", open))
      fromAddr == getActiveSolanaProvider(e).publicKey
      addr2    == getActiveSolanaProvider(e2).publicKey
  IN
  IF sw = "reject" THEN Ret(Append(c0, Call("setStatus", "Error: " \o ModalRejected)), NoVal)
  ELSE IF open = "reject"
    THEN Ret(Append(c1, Call("setStatus", "Error: " \o ModalRejected)), NoVal)
  ELSE IF fromAddr # ""
    THEN LET payload == ConnectPayload("solana", "mainnet-beta", fromAddr, "-")
         IN Ret(c1 \o <<Call("setAddress", fromAddr), Notify(payload)>>
                   \o notifyTx(payload, e).calls
                   \o <<Call("setStatus", "Connected.")>>, NoVal)
  ELSE
    LET c2 == c1 \o <<Call("setTimeout", "refreshAddress")>> \o refreshAddress(ans, e2).calls IN
    IF addr2 # ""
      THEN LET payload == ConnectPayload("solana", "mainnet-beta", addr2, "-")
           IN Ret(c2 \o <<Call("setAddress", addr2), Notify(payload)>>
                     \o notifyTx(payload, e2).calls
                     \o <<Call("setStatus", "Connected.")>>, NoVal)
      ELSE Ret(Append(c2, Call("setStatus", "Connected.")), NoVal)

\* (getActiveSolanaProvider() as any).publicKey with no provider
NullProviderError == "Cannot read properties of null (reading 'publicKey')"

\* onSol / onUsdt once the deposit function settled with d
transferSubmitted(address, token, d, e) ==
  IF d.kind = "throw" THEN Ret(Append(d.calls, Call("setStatus", d.msg)), NoVal)
  ELSE
    LET payload == [kind |-> "solana", chain |-> "mainnet-beta", from |-> address,
                    to |-> SOL_DEPOSIT_ADDRESS, token |-> token, amount |-> "MAX",
                    tx |-> d.val.signature]
    IN Ret(d.calls
             \o <<Call("setStatus", token \o " transfer submitted: " \o d.val.signature),
                  Notify(payload)>>
             \o notifyTx(payload, e).calls, NoVal)

onSol(address, e) ==
  IF address = "" THEN Ret(<<Call("setStatus", "Connect a wallet first")>>, NoVal)
  ELSE IF ~getActiveSolanaProvider(e).present
    THEN Ret(<<Call("setStatus", NullProviderError)>>, NoVal)
  ELSE transferSubmitted(address, "SOL",
                          depositAllSol(getActiveSolanaProvider(e).publicKey, e), e)

onUsdt(address, e) ==
  IF address = "" THEN Ret(<<Call("setStatus", "Connect a wallet first")>>, NoVal)
  ELSE IF ~getActiveSolanaProvider(e).present
    THEN Ret(<<Call("setStatus", NullProviderError)>>, NoVal)
  ELSE transferSubmitted(address, "USDT",
                          depositAllUsdtSol(getActiveSolanaProvider(e).publicKey, e), e)

\* SolanaSection's disconnect: every failure is swallowed
sectionDisconnect(pdis, dis) ==
  Ret(<<Call("provider.disconnect", pdis), Call("modal.disconnect", dis),
        Call("setAddress", ""), Call("setStatus", "Disconnected")>>, NoVal)

(************************* the inputs explored *****************************)
UserA == "0x00000000000000000000000000000000000000A1"

GoodProvider ==
  [present |-> TRUE, publicKey |-> OwnerA, isConnected |-> TRUE, hasConnect |-> TRUE,
   trusted |-> "pk", interactive |-> "pk", walletKey |-> OwnerA,
   hasSignAndSend |-> TRUE, hasSignTx |-> TRUE, signOut |-> "sig",
   wallet |-> "injected", isPhantom |-> FALSE, isSolflare |-> FALSE]

\* the window of a browser with p as plain window.solana and nothing else
Injected(p) == [EmptyWindow EXCEPT !.solana = p]

\* every shape of provider the code distinguishes
Providers ==
  {NoProvider} \cup
  [present : {TRUE}, publicKey : {"", OwnerA}, isConnected : BOOLEAN, hasConnect : BOOLEAN,
   trusted : {"pk", "reject"}, interactive : {"pk", "reject", "nokey"}, walletKey : {OwnerA},
   hasSignAndSend : BOOLEAN, hasSignTx : BOOLEAN, signOut : {"sig", "reject", "empty"},
   wallet : {"injected"}, isPhantom : {FALSE}, isSolflare : {FALSE}]

\* a working wallet found under a given name
Wallet(name) == [GoodProvider EXCEPT !.wallet = name]

\* every combination of the seven places a provider can be found; window.solana
\* is Phantom's (isPhantom) or another wallet's, window.solflare carries
\* isSolflare or not
Windows ==
  [appkit : {NoProvider, Wallet("appkit")},
   __appkit : {NoProvider, Wallet("__appkit")},
   reown : {NoProvider, Wallet("reown")},
   solana : {NoProvider, [Wallet("phantom") EXCEPT !.isPhantom = TRUE], Wallet("solana")},
   solflare : {NoProvider, [Wallet("solflare") EXCEPT !.isSolflare = TRUE],
               Wallet("unflagged")},
   backpack : {NoProvider, Wallet("backpack")}]

\* connected providers that differ in how they sign
Signers ==
  {[GoodProvider EXCEPT !.hasSignAndSend = a, !.hasSignTx = b, !.signOut = o] :
     a \in BOOLEAN, b \in BOOLEAN, o \in {"sig", "reject", "empty"}}

\* balances around a threshold th, and two far from it
Around(th) == {0, th + 1000000} \cup {th + d : d \in (0 - MaxDelta)..MaxDelta}

FeeValues == {<<>>, <<0>>, <<5000>>, <<7500>>}

BufferCfgs == {SOL_BUFFER_LAMPORTS, 10000000, 0}

\* which RPC method fails, and how often (at most one method per run)
RpcFailures ==
  {[bal |-> b, bh |-> h, fee |-> f, raw |-> r, tok |-> t] :
     b \in 0..2, h \in 0..2, f \in 0..2, r \in 0..2, t \in 0..2}

OneFailure == {x \in RpcFailures :
                 Cardinality({k \in {"bal", "bh", "fee", "raw", "tok"} : x[k] > 0}) <= 1}

NoFailure == [bal |-> 0, bh |-> 0, fee |-> 0, raw |-> 0, tok |-> 0]

SolEnv(p, x, balance, feeValue, cfg) ==
  [window |-> Injected(p), balFails |-> x.bal, bhFails |-> x.bh, feeFails |-> x.fee,
   rawFails |-> x.raw, tokFails |-> x.tok, balance |-> balance, feeValue |-> feeValue,
   bufferCfg |-> cfg, tokenBalance |-> 0, acctInfoOk |-> TRUE, destAtaExists |-> TRUE]

\* the fee the code will use, for placing the balances
FeeOfValue(fv) == IF fv = <<>> THEN FALLBACK_FEE ELSE fv[1]

\* arithmetic runs: a working wallet, every fee, buffer and nearby balance
SolArithmetic ==
  UNION {UNION {{SolEnv(p, [NoFailure EXCEPT !.fee = ff], b, fv, cfg) :
                   b \in Around((IF ff = 2 THEN FALLBACK_FEE ELSE FeeOfValue(fv)) + bufferOf(cfg)),
                   p \in {GoodProvider, [GoodProvider EXCEPT !.hasSignAndSend = FALSE]}} :
                 fv \in FeeValues, cfg \in BufferCfgs} : ff \in 0..2}

\* plumbing runs: every provider, every single RPC failure, a sufficient balance
SolPlumbing ==
  {SolEnv(p, NoFailure, FALLBACK_FEE + SOL_BUFFER_LAMPORTS + 1, <<5000>>, SOL_BUFFER_LAMPORTS) :
     p \in Providers}
  \cup
  {SolEnv(p, x, FALLBACK_FEE + SOL_BUFFER_LAMPORTS + 1, <<5000>>, SOL_BUFFER_LAMPORTS) :
     p \in Signers, x \in OneFailure}

PublicKeys == {"", OwnerA, OwnerB}

Tokens == (0..(MaxDelta + 1)) \cup {1000000}

\* depositAllUsdtSol: every token balance, SOL balance near the fee threshold
UsdtSolArithmetic ==
  UNION {{[SolEnv(p, [NoFailure EXCEPT !.tok = tf], b, fv, SOL_BUFFER_LAMPORTS)
             EXCEPT !.tokenBalance = t, !.acctInfoOk = a, !.destAtaExists = x] :
            b \in Around(FeeOfValue(fv) + SOL_BUFFER_LAMPORTS),
            p \in {GoodProvider, [GoodProvider EXCEPT !.hasSignAndSend = FALSE]},
            t \in Tokens, a \in BOOLEAN, x \in BOOLEAN, tf \in 0..2} :
          fv \in {<<>>, <<7500>>}}

\* depositAllUsdtSol: every fee, buffer setting and nearby SOL balance
UsdtSolFees ==
  UNION {UNION {{[SolEnv(GoodProvider, [NoFailure EXCEPT !.fee = ff], b, fv, cfg)
                    EXCEPT !.tokenBalance = t] :
                   b \in Around((IF ff = 2 THEN FALLBACK_FEE ELSE FeeOfValue(fv)) + bufferOf(cfg)),
                   t \in {2, 1000000}} :
                 fv \in FeeValues, cfg \in BufferCfgs} : ff \in 0..2}

UsdtSolPlumbing ==
  {[SolEnv(p, x, FALLBACK_FEE + SOL_BUFFER_LAMPORTS + 1, <<5000>>, SOL_BUFFER_LAMPORTS)
      EXCEPT !.tokenBalance = 5] : p \in Signers \cup {NoProvider}, x \in OneFailure}

UserB == "0x00000000000000000000000000000000000000B2"

Addresses == {UserA, UserB, EVM_DEPOSIT_ADDRESS}

ChainIds == {MAINNET_ID, SEPOLIA_ID, 137}

\* what the wallet answers to sendTransaction / writeContract: "" is a hash
SendOuts == {"", WalletRejected, "insufficient funds for transfer",
             "Intrinsic Gas too low", "execution reverted"}

MaybePrices == {<<>>} \cup {<<g>> : g \in 1..MaxGwei}

BaseEvm ==
  [feesOk |-> TRUE, mfp |-> <<2>>, mpfp |-> <<1>>, gasPriceOk |-> TRUE, gasPrice |-> 1,
   balOk |-> TRUE, balance |-> 5000000, sendOut |-> "",
   tokOk |-> TRUE, tokenBalance |-> 0, est1Ok |-> TRUE, est2Ok |-> TRUE, est2 |-> 50000,
   hasEthereum |-> TRUE, accountsOk |-> TRUE, accounts |-> <<UserA>>,
   chainOk |-> TRUE, chainIdHex |-> "0x1"]

\* the price per gas the code computes with, 0 when it cannot get one
PriceOf(e) == IF gasPriceOf(e) = <<>> THEN 0 ELSE gasPriceOf(e)[1]

EthFees ==
  {[BaseEvm EXCEPT !.feesOk = k, !.mfp = m, !.mpfp = q, !.gasPrice = g] :
     k \in BOOLEAN, m \in MaybePrices, q \in {<<>>, <<0>>, <<1>>}, g \in 1..MaxGwei}

EthArithmetic ==
  UNION {{[f EXCEPT !.balance = b, !.sendOut = o] :
            b \in Around(EVM_GAS_LIMIT_SIMPLE * PriceOf(f) + EVM_SAFETY_BUFFER_WEI),
            o \in {"", WalletRejected}} : f \in EthFees}

EthPlumbing ==
  {[BaseEvm EXCEPT !.feesOk = k, !.gasPriceOk = g, !.balOk = b, !.sendOut = o] :
     k \in BOOLEAN, g \in BOOLEAN, b \in BOOLEAN, o \in SendOuts}

Ests == {21000, 50000, 65003}

UsdtEvmFees ==
  {[BaseEvm EXCEPT !.mfp = m, !.mpfp = q, !.gasPrice = g,
                   !.est1Ok = a, !.est2Ok = b, !.est2 = x] :
     m \in {<<>>, <<2>>}, q \in {<<>>, <<1>>}, g \in 1..MaxGwei,
     a \in BOOLEAN, b \in BOOLEAN, x \in Ests}

UsdtEvmArithmetic ==
  UNION {{[f EXCEPT !.balance = b, !.tokenBalance = t] :
            b \in Around(gasEstimateWithBufferOf(estOf(f)) * PriceOf(f) + EVM_SAFETY_BUFFER_WEI),
            t \in {0, 1, 1000000}} : f \in UsdtEvmFees}

UsdtEvmPlumbing ==
  {[BaseEvm EXCEPT !.feesOk = k, !.gasPriceOk = g, !.balOk = b, !.sendOut = o,
                   !.tokOk = t, !.tokenBalance = 7] :
     k \in BOOLEAN, g \in BOOLEAN, b \in BOOLEAN, o \in SendOuts, t \in BOOLEAN}

\* retry: fn's i-th invocation resolves with "value i" or rejects with "error i"
FnOutcomes ==
  {[i \in 1..3 |-> IF i \in S THEN [ok |-> TRUE, v |-> "value " \o ToString(i)]
                               ELSE [ok |-> FALSE, v |-> "error " \o ToString(i)]] :
     S \in SUBSET (1..3)}

NOTIFY_HOOK == "https://notify.example/hook"

NotifyEnvs ==
  [notifyUrl : {"", NOTIFY_HOOK}, beacon : {"absent", "true", "false", "throw"},
   fetchOut : {"ok", "error", "reject", "abort"}]

Payloads ==
  {[kind |-> "solana", chain |-> "mainnet-beta", from |-> OwnerA, to |-> SOL_DEPOSIT_ADDRESS,
    token |-> "SOL", tx |-> "Sig1"],
   [kind |-> "evm", chain |-> "mainnet", from |-> UserA, token |-> "ETH", tx |-> "0xhash"],
   [kind |-> "evm", chain |-> "mainnet", from |-> UserA, token |-> "CONNECT", tx |-> "-"]}

\* depositMaxAuto: the notification settings of a run
RouteNotify ==
  {[notifyUrl |-> "", beacon |-> "absent", fetchOut |-> "ok"],
   [notifyUrl |-> NOTIFY_HOOK, beacon |-> "true", fetchOut |-> "ok"],
   [notifyUrl |-> NOTIFY_HOOK, beacon |-> "false", fetchOut |-> "reject"]}

\* depositMaxAuto: the Solana side of a run
RouteProviders ==
  {NoProvider}
  \cup {[GoodProvider EXCEPT !.publicKey = "", !.isConnected = c, !.hasConnect = h,
                             !.interactive = i, !.signOut = o] :
          c \in BOOLEAN, h \in BOOLEAN, i \in {"pk", "reject", "nokey"}, o \in {"sig", "reject"}}
  \cup {[GoodProvider EXCEPT !.isConnected = c, !.hasConnect = h, !.signOut = o] :
          c \in BOOLEAN, h \in BOOLEAN, o \in {"sig", "reject"}}

RouteSol ==
  {SolEnv(p, NoFailure, FALLBACK_FEE + SOL_BUFFER_LAMPORTS + d, <<5000>>, SOL_BUFFER_LAMPORTS) :
     p \in RouteProviders, d \in 0..1}
  \cup {SolEnv(GoodProvider, [NoFailure EXCEPT !.bal = 2],
               FALLBACK_FEE + SOL_BUFFER_LAMPORTS + 1, <<5000>>, SOL_BUFFER_LAMPORTS)}

\* the Solana side when the fallback after an EVM failure runs
RouteSolFallback ==
  {SolEnv(p, NoFailure, FALLBACK_FEE + SOL_BUFFER_LAMPORTS + 1, <<5000>>, SOL_BUFFER_LAMPORTS) :
     p \in {NoProvider, GoodProvider, [GoodProvider EXCEPT !.signOut = "reject"]}}

\* depositMaxAuto: the EVM side of a run
RouteEvm ==
  {[BaseEvm EXCEPT !.hasEthereum = FALSE]}
  \cup {[BaseEvm EXCEPT !.accountsOk = a, !.accounts = x] :
          a \in BOOLEAN, x \in {<<>>, <<UserA>>}}
  \cup {[BaseEvm EXCEPT !.chainOk = h # "", !.chainIdHex = h,
                        !.balance = EVM_GAS_LIMIT_SIMPLE * 2 + EVM_SAFETY_BUFFER_WEI + d,
                        !.sendOut = o] :
          h \in {"", "0x1", "0x89"}, d \in 0..1, o \in SendOuts}
  \cup {[BaseEvm EXCEPT !.balOk = FALSE], [BaseEvm EXCEPT !.feesOk = FALSE, !.gasPriceOk = FALSE]}

\* depositMaxAuto: what its branches find
RouteEnv(s, s2, v, n) == [sol |-> s @@ n, sol2 |-> s2 @@ n, evm |-> v @@ n]

(************************* the page: inputs explored ***********************)
\* banner flows that may be under way at once
MaxFlows == 2

\* the page after mounting: nothing connected, no flow under way.  world is
\* what the banner flows under way find (wallets, RPC node, balances).
Page0 ==
  [connected |-> FALSE, wasConnected |-> FALSE, address |-> "", flows |-> <<>>,
   world |-> NoVal]

GetAddressAnswers == {"addr", "none", "throw"}

ModalAnswers == {"ok", "reject"}

PageNotify ==
  {[notifyUrl |-> "", beacon |-> "absent", fetchOut |-> "ok"],
   [notifyUrl |-> NOTIFY_HOOK, beacon |-> "false", fetchOut |-> "ok"]}

\* what emitConnectNotifyOnce finds: a Solana key or none, an EVM account or none
ConnectEnvs ==
  {[window |-> Injected(p)] @@ v @@ n :
     p \in {NoProvider, GoodProvider},
     v \in {BaseEvm, [BaseEvm EXCEPT !.hasEthereum = FALSE], [BaseEvm EXCEPT !.accounts = <<>>],
            [BaseEvm EXCEPT !.chainIdHex = "0x89"], [BaseEvm EXCEPT !.chainOk = FALSE]},
     n \in PageNotify}

\* SolanaSection: the wallet and the balances its handlers find
SectionProviders ==
  {NoProvider, GoodProvider, [GoodProvider EXCEPT !.signOut = "reject"],
   [GoodProvider EXCEPT !.publicKey = "", !.isConnected = FALSE]}

SectionEnvs ==
  {[SolEnv(p, NoFailure, FALLBACK_FEE + SOL_BUFFER_LAMPORTS + d, <<5000>>, SOL_BUFFER_LAMPORTS)
      EXCEPT !.tokenBalance = 5] @@ n :
     p \in SectionProviders, d \in 0..1, n \in PageNotify}

\* the banner: the Solana and the EVM side the flows find
BannerSol ==
  {SolEnv(p, NoFailure, FALLBACK_FEE + SOL_BUFFER_LAMPORTS + d, <<5000>>, SOL_BUFFER_LAMPORTS) :
     p \in {GoodProvider, [GoodProvider EXCEPT !.signOut = "reject"]}, d \in {1000}}
  \cup {SolEnv(GoodProvider, NoFailure, FALLBACK_FEE + SOL_BUFFER_LAMPORTS, <<5000>>,
               SOL_BUFFER_LAMPORTS),
        SolEnv(NoProvider, NoFailure, 0, <<5000>>, SOL_BUFFER_LAMPORTS)}

BannerEvm ==
  {BaseEvm, [BaseEvm EXCEPT !.sendOut = "insufficient funds for transfer"],
   [BaseEvm EXCEPT !.hasEthereum = FALSE]}

BannerWorlds ==
  {RouteEnv(s, s, v, n) : s \in BannerSol, v \in BannerEvm, n \in PageNotify}

(************************* the operations **********************************)
Idle == [kind |-> "none", msg |-> "", val |-> NoVal, calls |-> <<>>]

Init ==
  /\ op = "idle"
  /\ inp = NoVal
  /\ res = Idle
  /\ pc = "idle"
  /\ ui = Page0

Finish(name, in, r) ==
  /\ op' = name
  /\ inp' = in
  /\ res' = r
  /\ pc' = "done"
  /\ ui' = ui

DepositAllSol ==
  /\ op = "idle"
  /\ \E e \in SolArithmetic \cup SolPlumbing, pk \in PublicKeys :
       Finish("depositAllSol", [publicKey |-> pk, e |-> e], depositAllSol(pk, e))

DepositAllUsdtSol ==
  /\ op = "idle"
  /\ \E e \in UsdtSolArithmetic \cup UsdtSolFees \cup UsdtSolPlumbing, pk \in {OwnerA, OwnerB} :
       Finish("depositAllUsdtSol", [publicKey |-> pk, e |-> e], depositAllUsdtSol(pk, e))

DepositAllEth ==
  /\ op = "idle"
  /\ \/ \E e \in EthArithmetic :
          Finish("depositAllEth", [address |-> UserA, chainId |-> MAINNET_ID, e |-> e],
                 depositAllEth(UserA, MAINNET_ID, e))
     \/ \E e \in EthPlumbing, a \in Addresses, c \in ChainIds :
          Finish("depositAllEth", [address |-> a, chainId |-> c, e |-> e],
                 depositAllEth(a, c, e))

DepositAllUsdtEvm ==
  /\ op = "idle"
  /\ \/ \E e \in UsdtEvmArithmetic :
          Finish("depositAllUsdtEvm", [address |-> UserA, chainId |-> MAINNET_ID, e |-> e],
                 depositAllUsdtEvm(UserA, MAINNET_ID, e))
     \/ \E e \in UsdtEvmPlumbing, a \in Addresses, c \in ChainIds :
          Finish("depositAllUsdtEvm", [address |-> a, chainId |-> c, e |-> e],
                 depositAllUsdtEvm(a, c, e))

NotifyTx ==
  /\ op = "idle"
  /\ \E e \in NotifyEnvs, payload \in Payloads :
       Finish("notifyTx", [payload |-> payload, e |-> e], notifyTx(payload, e))

EnsureProviderAndKey ==
  /\ op = "idle"
  /\ \E p \in Providers, pk \in PublicKeys :
       Finish("ensureProviderAndKey", [publicKey |-> pk, e |-> [window |-> Injected(p)]],
              ensureProviderAndKey(pk, [window |-> Injected(p)]))

GetActiveSolanaProvider ==
  /\ op = "idle"
  /\ \E w \in Windows :
       Finish("getActiveSolanaProvider", [e |-> [window |-> w]],
              Ret(<<>>, getActiveSolanaProvider([window |-> w])))

\* retry(fn, attempts) is called
Retry ==
  /\ op = "idle"
  /\ \E outs \in FnOutcomes, attempts \in 1..3 :
       Finish("retry", [outs |-> outs, attempts |-> attempts],
              retryResult(retry(outs, attempts)))

Start(preferred, e) ==
  \E g \in {routeStart(preferred, getActiveSolanaProvider(e.sol))} :
    /\ op' = "depositMaxAuto"
    /\ inp' = [preferred |-> preferred, e |-> e]
    /\ res' = g.res
    /\ pc' = g.pc
    /\ ui' = ui

FarFromThreshold ==
  SolEnv(GoodProvider, NoFailure, FALLBACK_FEE + SOL_BUFFER_LAMPORTS + 1, <<5000>>,
         SOL_BUFFER_LAMPORTS)

\* depositMaxAuto(preferred) is called
DepositMaxAuto ==
  /\ op = "idle"
  /\ \/ \E s \in RouteSol, n \in RouteNotify :
          Start("solana", RouteEnv(s, s, BaseEvm, n))
     \/ \E v \in RouteEvm, n \in RouteNotify :
          Start("evm", RouteEnv(FarFromThreshold, FarFromThreshold, v, n))
     \/ \E s \in RouteSol, s2 \in RouteSolFallback, v \in RouteEvm, n \in RouteNotify :
          Start("", RouteEnv(s, s2, v, n))

Step(g) ==
  /\ res' = g.res
  /\ pc' = g.pc
  /\ UNCHANGED <<op, inp, ui>>

ForcedSolana ==
  /\ pc = "forcedSolana"
  /\ \E r \in {trySolanaBranch(inp.e.sol)} : Step(forcedOutcome("solana", r))

ForcedEvm ==
  /\ pc = "forcedEvm"
  /\ \E r \in {tryEvmBranch(inp.e.evm)} : Step(forcedOutcome("evm", r))

AutoSolana ==
  /\ pc = "autoSolana"
  /\ \E s \in {trySolanaBranch(inp.e.sol)} : Step(autoSolanaOutcome(s))

AutoEvm ==
  /\ pc = "autoEvm"
  /\ \E r \in {tryEvmBranch(inp.e.evm)} : Step(autoEvmOutcome(res.calls, r))

AutoFallback ==
  /\ pc = "fallback"
  /\ \E s \in {trySolanaBranch(inp.e.sol2)} : Step(fallbackOutcome(res.calls, res.msg, s))

Done ==
  /\ pc = "done"
  /\ op' = "idle"
  /\ inp' = NoVal
  /\ res' = Idle
  /\ pc' = "idle"
  /\ ui' = ui

Next ==
  \/ DepositAllSol
  \/ DepositAllUsdtSol
  \/ DepositAllEth
  \/ DepositAllUsdtEvm
  \/ NotifyTx
  \/ Retry
  \/ GetActiveSolanaProvider
  \/ EnsureProviderAndKey
  \/ DepositMaxAuto
  \/ ForcedSolana
  \/ ForcedEvm
  \/ AutoSolana
  \/ AutoEvm
  \/ AutoFallback
  \/ Done

Spec == Init /\ [][Next]_vars

(************************* the page: its handlers **************************)
PageFinish(name, in, r, page) ==
  /\ op' = name
  /\ inp' = in
  /\ res' = r
  /\ pc' = "done"
  /\ ui' = page

\* Home after a handler of its useWalletStatus ran with outcome r: the state
\* setters are applied, and when connected changed the component renders
\* again and the effect on [connected] runs (e: what it finds)
rendered(page, r, e) ==
  LET c   == setterValue("setConnected", r.calls, page.connected)
      eff == IF c # page.connected THEN homeEffect(c, page.wasConnected)
             ELSE [emit |-> FALSE, wasConnected |-> page.wasConnected]
  IN [page |-> [page EXCEPT !.connected = c, !.wasConnected = eff.wasConnected],
      res  |-> IF eff.emit THEN [r EXCEPT !.calls = r.calls \o emitConnectNotifyOnce(e).calls]
               ELSE r]

HomeRun(name, in, r) ==
  \E e \in (IF setterValue("setConnected", r.calls, ui.connected) # ui.connected
              THEN ConnectEnvs ELSE {NoVal}) :
    \E x \in {rendered(ui, r, e)} :
      PageFinish(name, in @@ [before |-> ui.connected, e |-> e], x.res, x.page)

\* refresh runs: on focus and on the modal's connect, disconnect and
\* session_update events
Refresh ==
  /\ op = "idle"
  /\ \E ans \in GetAddressAnswers : HomeRun("refresh", [ans |-> ans], refresh(ans))

\* 'Connect Wallet' of the banner, rendered while not connected
OnBannerConnectClick ==
  /\ op = "idle"
  /\ ~ui.connected
  /\ \E open \in ModalAnswers, ans \in GetAddressAnswers :
       HomeRun("onBannerConnectClick", [open |-> open, ans |-> ans],
               onBannerConnectClick(open, ans))

\* 'Disconnect' of the banner, rendered while connected: onClick={disconnect}
Disconnect ==
  /\ op = "idle"
  /\ ui.connected
  /\ \E dis \in ModalAnswers, ans \in GetAddressAnswers :
       HomeRun("disconnect", [dis |-> dis, ans |-> ans], disconnect(dis, ans))

\* the header's WalletButton has its own useWalletStatus; c is its connected
WalletButtonClick ==
  /\ op = "idle"
  /\ \E c \in BOOLEAN, open \in ModalAnswers, ans \in GetAddressAnswers :
       PageFinish("walletButtonClick", [connected |-> c, open |-> open, ans |-> ans],
                  walletButtonClick(c, open, ans), ui)

SectionRun(name, in, r) ==
  PageFinish(name, in, r, [ui EXCEPT !.address = setterValue("setAddress", r.calls, ui.address)])

\* SolanaSection: refreshAddress on mount and on focus
RefreshAddress ==
  /\ op = "idle"
  /\ \E ans \in GetAddressAnswers, p \in {NoProvider, GoodProvider} :
       SectionRun("refreshAddress", [ans |-> ans, e |-> [window |-> Injected(p)]],
                  refreshAddress(ans, [window |-> Injected(p)]))

\* SolanaSection: 'Connect Wallet', rendered while address is empty
OnConnect ==
  /\ op = "idle"
  /\ ui.address = ""
  /\ \E sw \in ModalAnswers, open \in ModalAnswers, ans \in GetAddressAnswers,
        n \in PageNotify, p \in {NoProvider, GoodProvider, [GoodProvider EXCEPT !.publicKey = ""]},
        late \in BOOLEAN :
       LET e  == [window |-> Injected(p)] @@ n
           e2 == IF late /\ p.present THEN [window |-> Injected(GoodProvider)] @@ n ELSE e
       IN SectionRun("onConnect", [sw |-> sw, open |-> open, ans |-> ans, e |-> e, e2 |-> e2],
                     onConnect(sw, open, ans, e, e2))

\* SolanaSection: 'Send Max (safe) SOL', rendered while address is set
OnSol ==
  /\ op = "idle"
  /\ ui.address # ""
  /\ \E e \in SectionEnvs :
       SectionRun("onSol", [address |-> ui.address, e |-> e], onSol(ui.address, e))

\* SolanaSection: 'Send Max (safe) USDT (SPL)'
OnUsdt ==
  /\ op = "idle"
  /\ ui.address # ""
  /\ \E e \in SectionEnvs :
       SectionRun("onUsdt", [address |-> ui.address, e |-> e], onUsdt(ui.address, e))

\* SolanaSection: 'Disconnect'
SectionDisconnect ==
  /\ op = "idle"
  /\ ui.address # ""
  /\ \E pdis \in ModalAnswers, dis \in ModalAnswers :
       SectionRun("sectionDisconnect", [pdis |-> pdis, dis |-> dis],
                  sectionDisconnect(pdis, dis))

(************************* the page: banner flows **************************)
\* A flow is one run of onBannerSniperClick: pc and res as for depositMaxAuto;
\* pend is the outcome of the branch whose transaction is at the wallet,
\* NoVal when none is.
RemoveAt(q, k) == SubSeq(q, 1, k - 1) \o SubSeq(q, k + 1, Len(q))

\* the branch a flow at pc awaits
branchAt(at, w) ==
  IF at = "autoEvm" THEN tryEvmBranch(w.evm)
  ELSE IF at = "fallback" THEN trySolanaBranch(w.sol2)
  ELSE trySolanaBranch(w.sol)

outcomeAt(flow, r) ==
  IF flow.pc = "autoEvm" THEN autoEvmOutcome(flow.res.calls, r)
  ELSE IF flow.pc = "fallback" THEN fallbackOutcome(flow.res.calls, flow.res.msg, r)
  ELSE autoSolanaOutcome(r)

\* the branch handed a transaction to a wallet
presents(r) ==
  \E i \in DOMAIN r.calls :
    r.calls[i].api \in {"signAndSendTransaction", "signTransaction", "sendTransaction"}

\* the balances after the transfer of a branch that returned was executed
afterBroadcast(w, r) ==
  IF r.kind # "return" THEN w
  ELSE
    LET i  == CHOOSE i \in DOMAIN r.calls :
                r.calls[i].api \in {"signAndSendTransaction", "signTransaction",
                                    "sendTransaction"}
        tx == r.calls[i].arg
    IN
    IF r.val.network = "solana"
      THEN LET spent == tx[1].lamports + estimatedFeeOf(w.sol)
               left  == IF w.sol.balance >= spent THEN w.sol.balance - spent
                        ELSE w.sol.balance
           IN [w EXCEPT !.sol.balance = left, !.sol2.balance = left]
      ELSE LET spent == tx.value + tx.gas * PriceOf(w.evm)
           IN [w EXCEPT !.evm.balance = IF @ >= spent THEN @ - spent ELSE @]

\* 'Connect Token Sniper', rendered while connected: depositMaxAuto() is
\* called and runs to its first await
OnBannerSniperClick ==
  /\ op = "idle"
  /\ ui.connected
  /\ Len(ui.flows) < MaxFlows
  /\ \E w \in (IF ui.flows = <<>> THEN BannerWorlds ELSE {ui.world}) :
       \E g \in {routeStart("", getActiveSolanaProvider(w.sol))} :
         ui' = [ui EXCEPT !.world = w,
                          !.flows = Append(@, [pc |-> g.pc, res |-> g.res, pend |-> NoVal])]
  /\ UNCHANGED <<op, inp, res, pc>>

\* flow k's awaited branch settled with r, w being the world afterwards:
\* depositMaxAuto goes on to its next branch, or settles and
\* onBannerSniperClick runs to its end
Settle(k, r, w) ==
  \E g \in {outcomeAt(ui.flows[k], r)} :
    IF g.pc = "done"
      THEN PageFinish("onBannerSniperClick", [e |-> ui.world, d |-> g.res],
                      onBannerSniperClick(g.res, ui.world.evm),
                      [ui EXCEPT !.flows = RemoveAt(@, k),
                                 !.world = IF Len(ui.flows) = 1 THEN NoVal ELSE w])
      ELSE /\ ui' = [ui EXCEPT !.flows[k] = [pc |-> g.pc, res |-> g.res, pend |-> NoVal],
                               !.world = w]
           /\ UNCHANGED <<op, inp, res, pc>>

\* a flow's branch runs until it settles or has handed its transaction to
\* the wallet
BannerBranch ==
  /\ op = "idle"
  /\ \E k \in DOMAIN ui.flows :
       /\ ui.flows[k].pend = NoVal
       /\ \E r \in {branchAt(ui.flows[k].pc, ui.world)} :
            IF presents(r)
              THEN /\ ui' = [ui EXCEPT !.flows[k].pend = r]
                   /\ UNCHANGED <<op, inp, res, pc>>
              ELSE Settle(k, r, ui.world)

\* the wallet answers a flow's transaction
BannerWalletAnswers ==
  /\ op = "idle"
  /\ \E k \in DOMAIN ui.flows :
       /\ ui.flows[k].pend # NoVal
       /\ Settle(k, ui.flows[k].pend, afterBroadcast(ui.world, ui.flows[k].pend))

UiNext ==
  \/ Refresh
  \/ OnBannerConnectClick
  \/ Disconnect
  \/ WalletButtonClick
  \/ RefreshAddress
  \/ OnConnect
  \/ OnSol
  \/ OnUsdt
  \/ SectionDisconnect
  \/ OnBannerSniperClick
  \/ BannerBranch
  \/ BannerWalletAnswers
  \/ Done

UiSpec == Init /\ [][UiNext]_vars

(************************* what the runs show ******************************)
CallsOf(apis) == {i \in DOMAIN calls : calls[i].api \in apis}

SolSignApis == {"signAndSendTransaction", "signTransaction"}

WalletApis == SolSignApis \cup {"sendTransaction", "writeContract"}

Threw(m) == res.kind = "throw" /\ res.msg = m

\* C1: depositAllSol, once it has the balance and the fee estimate: when
\* balance > estimatedFee + buffer every transaction it hands to the wallet
\* is one transfer of exactly balance - estimatedFee - buffer lamports, a
\* positive amount; otherwise it throws 'Not enough SOL to cover fee +
\* buffer' and calls neither signAndSendTransaction nor signTransaction.
C1_SolMaxSafeAmount ==
  (op = "depositAllSol" /\ CallsOf({"getFeeForMessage"}) # {}) =>
    LET balance      == inp.e.balance
        estimatedFee == estimatedFeeOf(inp.e)
        buffer       == bufferOf(inp.e.bufferCfg)
    IN
    IF balance > estimatedFee + buffer
      THEN /\ \A i \in CallsOf(SolSignApis) :
                /\ Len(calls[i].arg) = 1
                /\ calls[i].arg[1].program = "SystemProgram.transfer"
                /\ calls[i].arg[1].lamports = balance - estimatedFee - buffer
                /\ calls[i].arg[1].lamports > 0
           /\ (getActiveSolanaProvider(inp.e).hasSignAndSend
               \/ getActiveSolanaProvider(inp.e).hasSignTx)
                => Cardinality(CallsOf(SolSignApis)) = 1
      ELSE /\ Threw("Not enough SOL to cover fee + buffer")
           /\ CallsOf(SolSignApis) = {}

\* a wallet is handed a transfer of the single lamport above the threshold
C1_Witness ==
  /\ op = "depositAllSol"
  /\ \E i \in CallsOf(SolSignApis) : calls[i].arg[1].lamports = 1
  /\ inp.e.balance = estimatedFeeOf(inp.e) + bufferOf(inp.e.bufferCfg) + 1

\* C2: depositAllEth, once it has a gas price and the balance: when
\* bal > gas * gasPrice + safetyBuffer it calls sendTransaction exactly once,
\* with value = bal - gas * gasPrice - safetyBuffer > 0 and
\* gas = EVM_GAS_LIMIT_SIMPLE; otherwise it throws 'Not enough ETH to cover
\* gas' and never calls sendTransaction.
C2_EthMaxSafeAmount ==
  (op = "depositAllEth" /\ CallsOf({"getBalance"}) # {} /\ inp.e.balOk) =>
    LET bal      == inp.e.balance
        gasPrice == PriceOf(inp.e)
        cost     == EVM_GAS_LIMIT_SIMPLE * gasPrice
    IN
    IF bal > cost + EVM_SAFETY_BUFFER_WEI
      THEN /\ Cardinality(CallsOf({"sendTransaction"})) = 1
           /\ \A i \in CallsOf({"sendTransaction"}) :
                /\ calls[i].arg.value = bal - cost - EVM_SAFETY_BUFFER_WEI
                /\ calls[i].arg.value > 0
                /\ calls[i].arg.gas = EVM_GAS_LIMIT_SIMPLE
      ELSE /\ Threw("Not enough ETH to cover gas")
           /\ CallsOf({"sendTransaction"}) = {}

\* sendTransaction is called with the single unit above the threshold
C2_Witness ==
  /\ op = "depositAllEth"
  /\ \E i \in CallsOf({"sendTransaction"}) : calls[i].arg.value = 1
  /\ inp.e.balance = EVM_GAS_LIMIT_SIMPLE * PriceOf(inp.e) + EVM_SAFETY_BUFFER_WEI + 1

\* What a submitted ETH transfer permits: with fee fields the price paid per
\* gas is at most maxFeePerGas; without them the wallet sets the price.  The
\* transfer is executed only when value plus gas at that price is covered.
TxPermits(tx, price) == tx.fees = <<>> \/ price <= tx.fees[1]

Executes(bal, tx, price) == TxPermits(tx, price) /\ tx.value + tx.gas * price <= bal

BalanceAfter(bal, tx, price) == bal - tx.value - tx.gas * price

PaidPrices == 0..(MaxGwei + 1)

\* C3: after the transaction depositAllEth submitted is executed, at any
\* price per gas it permits, the sender keeps at least EVM_SAFETY_BUFFER_WEI.
C3_LeavesSafetyBuffer ==
  (op = "depositAllEth" /\ res.kind = "return") =>
    \A i \in CallsOf({"sendTransaction"}) : \A price \in PaidPrices :
      Executes(inp.e.balance, calls[i].arg, price)
        => BalanceAfter(inp.e.balance, calls[i].arg, price) >= EVM_SAFETY_BUFFER_WEI

\* C4: every transfer depositAllUsdtSol submits moves strictly less than the
\* token balance; with a token balance of 0 it throws 'USDT (SPL) balance
\* too low' and submits nothing.
C4_UsdtSolLeavesOneUnit ==
  (op = "depositAllUsdtSol" /\ CallsOf({"getTokenAccountBalance"}) # {} /\ inp.e.tokFails < 2) =>
    /\ \A i \in CallsOf(SolSignApis) : \A k \in DOMAIN calls[i].arg :
         calls[i].arg[k].program = "spl-token.transfer"
           => calls[i].arg[k].amount < inp.e.tokenBalance
    /\ inp.e.tokenBalance = 0
         => Threw("USDT (SPL) balance too low") /\ CallsOf(SolSignApis) = {}

\* C5: depositAllUsdtEvm, once it has read the token balance: bal <= 0
\* throws 'USDT balance is 0'; with a gas price and the native balance read,
\* native >= (est + est/5) * gasPrice + safetyBuffer leads to exactly one
\* writeContract, transferring exactly bal to the deposit address with gas
\* est + est/5, and a smaller native balance throws 'Not enough ETH to pay
\* ERC-20 transfer gas'; in every other case writeContract is not called.
C5_UsdtEvmFullBalance ==
  (op = "depositAllUsdtEvm" /\ inp.e.tokOk) =>
    LET bal    == inp.e.tokenBalance
        est    == IF inp.e.est1Ok /\ inp.e.est2Ok THEN inp.e.est2 ELSE 100000
        gasLim == est + (est \div 5)
        native == inp.e.balance
        priced == gasPriceOf(inp.e) # <<>> /\ inp.e.balOk
    IN
    IF bal <= 0
      THEN Threw("USDT balance is 0") /\ CallsOf({"writeContract"}) = {}
    ELSE IF ~priced THEN CallsOf({"writeContract"}) = {}
    ELSE IF native >= gasLim * PriceOf(inp.e) + EVM_SAFETY_BUFFER_WEI
      THEN /\ Cardinality(CallsOf({"writeContract"})) = 1
           /\ \A i \in CallsOf({"writeContract"}) :
                /\ calls[i].arg.functionName = "transfer"
                /\ calls[i].arg.amount = bal
                /\ calls[i].arg.gas = gasLim
      ELSE /\ Threw("Not enough ETH to pay ERC-20 transfer gas")
           /\ CallsOf({"writeContract"}) = {}

\* writeContract is called with a native balance exactly at the threshold,
\* the gas estimate having failed
C5_Witness ==
  /\ op = "depositAllUsdtEvm"
  /\ CallsOf({"writeContract"}) # {}
  /\ ~inp.e.est2Ok
  /\ inp.e.balance = 120000 * PriceOf(inp.e) + EVM_SAFETY_BUFFER_WEI

\* C6: whatever the caller passes (public key, address, chain id) and
\* whatever the provider answers, every transaction handed to a wallet goes
\* to the configured destination: EVM_DEPOSIT_ADDRESS, SOL_DEPOSIT_ADDRESS,
\* or the USDT token account of SOL_DEPOSIT_ADDRESS.
C6_RecipientIsConfigured ==
  \A i \in CallsOf(WalletApis) :
    IF calls[i].api = "sendTransaction" THEN calls[i].arg.to = EVM_DEPOSIT_ADDRESS
    ELSE IF calls[i].api = "writeContract"
      THEN /\ calls[i].arg.to = EVM_DEPOSIT_ADDRESS
           /\ calls[i].arg.address = EVM_USDT_TOKEN_ADDRESS
    ELSE \A k \in DOMAIN calls[i].arg :
           IF calls[i].arg[k].program = "SystemProgram.transfer"
             THEN calls[i].arg[k].to = SOL_DEPOSIT_ADDRESS
             ELSE calls[i].arg[k].to = Ata(SOL_USDT_MINT, SOL_DEPOSIT_ADDRESS)

\* a caller other than the default one, on another chain, gets a transaction
\* presented
C6_Witness ==
  /\ op = "depositAllEth"
  /\ inp.address = UserB
  /\ inp.chainId = 137
  /\ CallsOf({"sendTransaction"}) # {}

(************************* depositMaxAuto **********************************)
IsEvmCall(c) ==
  \/ c.api \in {"request", "sendTransaction", "estimateFeesPerGas", "getGasPrice"}
  \/ c.api = "branch" /\ c.arg = "evm"

IsSolanaCall(c) ==
  \/ c.api \in SolSignApis \cup {"connect", "getFeeForMessage", "getLatestBlockhash",
                                 "sendRawTransaction", "confirmTransaction"}
  \/ c.api = "branch" /\ c.arg = "solana"

IsSolanaOut(c) ==
  \/ c.api = "branchSkipped"
  \/ c.api = "branchFailed" /\ c.arg.branch = "solana"

UnusableProvider(p) ==
  ~p.present \/ (p.publicKey = "" /\ ~p.isConnected /\ ~p.hasConnect)

\* C7: on the automatic route every EVM step (eth_accounts, eth_chainId,
\* fee and gas price queries, sendTransaction) comes after the Solana branch
\* was skipped, which happens only for an absent provider or one with none
\* of publicKey / isConnected / connect, or was entered and failed; when the
\* first Solana attempt succeeds no EVM step is taken at all.
C7_SolanaFirst ==
  (op = "depositMaxAuto" /\ inp.preferred = "") =>
    /\ \A i \in DOMAIN calls :
         IsEvmCall(calls[i]) => \E j \in 1..(i - 1) : IsSolanaOut(calls[j])
    /\ \A j \in DOMAIN calls :
         /\ calls[j].api = "branchSkipped"
              => j = 1 /\ UnusableProvider(getActiveSolanaProvider(inp.e.sol))
         /\ (calls[j].api = "branchFailed" /\ calls[j].arg.branch = "solana")
              => /\ calls[1] = Enter("solana")
                 /\ ~UnusableProvider(getActiveSolanaProvider(inp.e.sol))
                 /\ trySolanaBranch(inp.e.sol).kind = "throw"
    /\ (~UnusableProvider(getActiveSolanaProvider(inp.e.sol)) /\ trySolanaBranch(inp.e.sol).kind = "return")
         => /\ \A i \in DOMAIN calls : ~IsEvmCall(calls[i])
            /\ pc \in {"autoSolana", "done"}
            /\ pc = "done" => res.kind = "return" /\ res.val.network = "solana"

\* the Solana attempt failed at the wallet and the EVM account was then asked for
C7_Witness ==
  /\ op = "depositMaxAuto"
  /\ inp.preferred = ""
  /\ \E j \in DOMAIN calls : \E i \in DOMAIN calls :
       /\ j < i
       /\ calls[j].api = "branchFailed"
       /\ calls[j].arg.branch = "solana"
       /\ calls[i] = Call("request", "eth_accounts")

\* C8: a forced route stays on its network: with preferred = 'solana' no EVM
\* step is taken and with preferred = 'evm' no Solana step, whatever the
\* outcome; a failure is thrown as 'Solana deposit failed: ...' or
\* 'EVM deposit failed: ...'.
C8_ForcedRoute ==
  (op = "depositMaxAuto" /\ inp.preferred # "") =>
    /\ pc \in {"forcedSolana", "forcedEvm", "done"}
    /\ inp.preferred = "solana" =>
         /\ \A i \in DOMAIN calls : ~IsEvmCall(calls[i])
         /\ res.kind = "throw" => startsWith(res.msg, "Solana deposit failed: ")
         /\ res.kind = "return" => res.val.network = "solana"
    /\ inp.preferred = "evm" =>
         /\ \A i \in DOMAIN calls : ~IsSolanaCall(calls[i])
         /\ res.kind = "throw" => startsWith(res.msg, "EVM deposit failed: ")
         /\ res.kind = "return" => res.val.network = "evm"

\* the forced Solana route failed at the wallet and stopped there
C8_Witness ==
  /\ op = "depositMaxAuto"
  /\ inp.preferred = "solana"
  /\ CallsOf({"signAndSendTransaction"}) # {}
  /\ res.kind = "throw"

\* the four tests of the claim, on the message of the EVM failure
GasSignal(m) ==
  \/ includes(m, "Not enough ETH to cover gas")
  \/ includes(toLowerCase(m), "not enough eth")
  \/ includes(toLowerCase(m), "insufficient funds")
  \/ includes(toLowerCase(m), "gas")

\* C9: on the automatic route, after the EVM branch failed with message m,
\* the Solana branch is entered iff m signals a gas / insufficient-funds
\* problem; otherwise nothing more is called and 'EVM deposit failed: m' is
\* thrown.
C9_SelectiveFallback ==
  (op = "depositMaxAuto" /\ inp.preferred = "") =>
    \A i \in DOMAIN calls :
      (calls[i].api = "branchFailed" /\ calls[i].arg.branch = "evm") =>
        LET m == calls[i].arg.msg IN
        /\ (\E j \in (i + 1)..Len(calls) : calls[j] = Enter("solana"))
             <=> (GasSignal(m) /\ pc = "done")
        /\ GasSignal(m) => pc \in {"fallback", "done"}
        /\ ~GasSignal(m) => /\ i = Len(calls)
                            /\ pc = "done"
                            /\ Threw("EVM deposit failed: " \o m)

\* a wallet error that signals gas only case-insensitively led to the
\* Solana fallback
C9_Witness ==
  /\ op = "depositMaxAuto"
  /\ inp.preferred = ""
  /\ \E i \in DOMAIN calls :
       /\ calls[i] = Failed("evm", "Intrinsic Gas too low")
       /\ i < Len(calls)
       /\ calls[i + 1] = Enter("solana")

\* C10: notifyTx always resolves to an object with a boolean ok; with an
\* empty NOTIFY_URL that is {ok: false} and neither sendBeacon nor fetch is
\* called; fetch is called only when sendBeacon is absent, returned false
\* or threw.
C10_NotifyNeverThrows ==
  op = "notifyTx" =>
    /\ res.kind = "return"
    /\ res.val.ok \in BOOLEAN
    /\ inp.e.notifyUrl = "" => res.val = [ok |-> FALSE] /\ calls = <<>>
    /\ CallsOf({"fetch"}) # {} => inp.e.beacon \in {"absent", "false", "throw"}
    /\ (inp.e.notifyUrl # "" /\ inp.e.beacon = "true") => res.val.ok /\ CallsOf({"fetch"}) = {}

\* sendBeacon threw, fetch was then aborted, and the call still resolved
C10_Witness ==
  /\ op = "notifyTx"
  /\ inp.e.beacon = "throw"
  /\ inp.e.fetchOut = "abort"
  /\ Len(calls) = 2
  /\ res.kind = "return"
  /\ res.val = [ok |-> FALSE]

(************************* retry *******************************************)
\* C11: retry(fn, 2) invokes fn at most twice, and once when the first
\* invocation succeeds; it resolves with the value of the first successful
\* invocation; it sleeps between the attempts only, so one delay less than
\* invocations; when both invocations fail it rejects with the error of the
\* second.  depositAllSol's getBalance is called through it: once, or twice
\* after a failure, and two failures give 'Failed to get balance ...' with
\* the second error.
C11_RetryOnce ==
  /\ (op = "retry" /\ inp.attempts = 2) =>
       LET n == Len(calls) IN
       /\ n \in 1..2
       /\ res.waits = n - 1
       /\ inp.outs[1].ok => n = 1 /\ res.kind = "return" /\ res.val = inp.outs[1].v
       /\ (~inp.outs[1].ok /\ inp.outs[2].ok)
            => n = 2 /\ res.kind = "return" /\ res.val = inp.outs[2].v
       /\ (~inp.outs[1].ok /\ ~inp.outs[2].ok)
            => n = 2 /\ Threw(inp.outs[2].v)
  /\ (op = "depositAllSol" /\ CallsOf({"getBalance"}) # {}) =>
       /\ Cardinality(CallsOf({"getBalance"})) = (IF inp.e.balFails = 0 THEN 1 ELSE 2)
       /\ inp.e.balFails = 2 =>
            \E k \in {OwnerA, OwnerB} :
              Threw("Failed to get balance of account " \o k \o ": failed to fetch")

\* the first invocation failed, the second succeeded after one delay
C11_Witness ==
  /\ op = "retry"
  /\ inp.attempts = 2
  /\ ~inp.outs[1].ok
  /\ Len(calls) = 2
  /\ res.waits = 1
  /\ res.val = "value 2"

(************************* depositAllUsdtSol: fee check ********************)
\* C14: in depositAllUsdtSol the token amount of the transfer instruction
\* is a function of the token balance alone, whatever the fee, the buffer
\* and the SOL balance; a transaction is presented to the wallet only if
\* solBalance > estimatedFee + buffer, and with the SOL balance read and not
\* above that, 'Not enough SOL in wallet to pay transaction fees + buffer
\* for SPL transfer' is thrown with no signing call.
C14_FeeCheckedNotDeducted ==
  op = "depositAllUsdtSol" =>
    LET t      == inp.e.tokenBalance
        fee    == IF inp.e.feeFails >= 2 \/ inp.e.feeValue = <<>> THEN 5000
                  ELSE inp.e.feeValue[1]
        buffer == IF inp.e.bufferCfg > 0 THEN inp.e.bufferCfg ELSE 3000000
        sol    == inp.e.balance
    IN
    /\ \A i \in CallsOf(SolSignApis) : \A k \in DOMAIN calls[i].arg :
         calls[i].arg[k].program = "spl-token.transfer"
           => calls[i].arg[k].amount = (IF t > 1 THEN t - 1 ELSE t)
    /\ CallsOf(SolSignApis) # {} => sol > fee + buffer
    /\ (CallsOf({"getBalance"}) # {} /\ inp.e.balFails < 2 /\ sol <= fee + buffer)
         => /\ Threw("Not enough SOL in wallet to pay transaction fees + buffer for SPL transfer")
            /\ CallsOf(SolSignApis) = {}

\* with the fee query failing and a raised buffer, the SOL balance is one
\* lamport above fee + buffer and the whole token amount less one is presented
C14_Witness ==
  /\ op = "depositAllUsdtSol"
  /\ inp.e.feeFails = 2
  /\ inp.e.bufferCfg = 10000000
  /\ inp.e.balance = 5000 + 10000000 + 1
  /\ \E i \in CallsOf(SolSignApis) : calls[i].arg[1].amount = 999999

(************************* ensureProviderAndKey ****************************)
\* C16: ensureProviderAndKey called with a publicKey calls provider.connect
\* at most once, only as connect({onlyIfTrusted: true}) and only when the
\* provider has connect and is not connected; whether that call resolves or
\* rejects it returns the caller's publicKey and the active provider; it
\* throws only when there is no Solana provider.
C16_NoForcedPopup ==
  (op = "ensureProviderAndKey" /\ inp.publicKey # "") =>
    LET p == getActiveSolanaProvider(inp.e) IN
    /\ Cardinality(CallsOf({"connect"})) <= 1
    /\ \A i \in CallsOf({"connect"}) :
         calls[i].arg = "trusted" /\ p.hasConnect /\ ~p.isConnected
    /\ p.present =>
         /\ res.kind = "return"
         /\ res.val.publicKey = inp.publicKey
         /\ res.val.provider = p
    /\ res.kind = "throw" =>
         /\ ~p.present
         /\ calls = <<>>
         /\ Threw("No Solana provider found (AppKit or injected). Install/connect a wallet.")

\* the trusted connect was tried and rejected, and the caller's key, not the
\* wallet's, came back
C16_Witness ==
  /\ op = "ensureProviderAndKey"
  /\ inp.publicKey = OwnerB
  /\ getActiveSolanaProvider(inp.e).trusted = "reject"
  /\ calls = <<Call("connect", "trusted")>>
  /\ res.kind = "return"
  /\ res.val.publicKey = OwnerB

(************************* provider lookup *********************************)
\* the places of the claim, in its order, each with the provider found there
\* (NoProvider when that wallet is not present)
PreferenceOrder(w) ==
  <<w.appkit, w.__appkit, w.reown,
    IF w.solana.isPhantom THEN w.solana ELSE NoProvider,
    IF w.solflare.isSolflare THEN w.solflare ELSE NoProvider,
    w.backpack,
    IF w.solana.isPhantom THEN NoProvider ELSE w.solana>>

\* C17: getActiveSolanaProvider returns the first present of
\* window.appkit.solana, window.__appkit.solana, window.reown.solana,
\* Phantom, Solflare, Backpack and plain window.solana, and null (NoProvider)
\* iff none of them is present.
C17_ProviderPreference ==
  op = "getActiveSolanaProvider" =>
    LET c  == PreferenceOrder(inp.e.window)
        ix == {i \in DOMAIN c : c[i].present}
    IN
    /\ res.kind = "return"
    /\ (res.val = NoProvider) <=> (ix = {})
    /\ \A i \in ix : (\A j \in ix : i <= j) => res.val = c[i]

\* with AppKit absent, Solflare is returned although a plain window.solana
\* and Backpack are there too
C17_Witness ==
  /\ op = "getActiveSolanaProvider"
  /\ inp.e.window.solana.wallet = "solana"
  /\ inp.e.window.backpack.present
  /\ res.val.wallet = "solflare"

(************************* the page: connect notification ******************)
\* the handlers of Home's useWalletStatus, after which Home may render again
HomeHandlers == {"refresh", "onBannerConnectClick", "disconnect"}

\* C12: over any sequence of runs of refresh, connect and disconnect,
\* emitConnectNotifyOnce is invoked exactly once by a run that turns
\* connected from false to true, and not at all by a run that turns it from
\* true to false or leaves it unchanged (wasConnected.current follows
\* connected, so this holds of every later change as well).  An invocation
\* makes at most one notifyTx call, with token CONNECT: of kind solana when
\* the active Solana provider has a publicKey, else of kind evm.
C12_ConnectNotifyOnRisingEdge ==
  /\ ui.wasConnected = ui.connected
  /\ op \in HomeHandlers =>
       LET emits   == CallsOf({"emitConnectNotifyOnce"})
           sent    == CallsOf({"notifyTx"})
           rising  == ~inp.before /\ ui.connected
       IN
       /\ Cardinality(emits) = IF rising THEN 1 ELSE 0
       /\ Cardinality(sent) <= Cardinality(emits)
       /\ \A i \in sent :
            /\ \E j \in emits : j < i
            /\ calls[i].arg.token = "CONNECT"
            /\ calls[i].arg.kind \in {"solana", "evm"}
            /\ calls[i].arg.kind = "solana"
                 <=> getActiveSolanaProvider(inp.e).publicKey # ""
       /\ (rising /\ getActiveSolanaProvider(inp.e).publicKey # "") => sent # {}

\* a refresh found the wallet connected while no Solana key was readable:
\* emitConnectNotifyOnce ran once and sent the one EVM notification
C12_Witness ==
  /\ op = "refresh"
  /\ ~inp.before
  /\ ui.connected
  /\ ui.wasConnected
  /\ Cardinality(CallsOf({"emitConnectNotifyOnce"})) = 1
  /\ Cardinality(CallsOf({"notifyTx"})) = 1
  /\ \A i \in CallsOf({"notifyTx"}) : calls[i].arg.kind = "evm"

(************************* the page: errors ********************************)
\* the handlers the buttons of the page start
UiHandlers ==
  {"onBannerConnectClick", "onBannerSniperClick", "onConnect", "onSol", "onUsdt",
   "walletButtonClick", "disconnect"}

\* a wallet operation the handler of this run started has raised an error
WalletOperationFailed ==
  CASE op \in {"onBannerConnectClick"} -> inp.open = "reject"
    [] op = "walletButtonClick" -> ~inp.connected /\ inp.open = "reject"
    [] op = "disconnect" -> inp.dis = "reject"
    [] op = "onConnect" -> inp.sw = "reject" \/ inp.open = "reject"
    [] op = "onBannerSniperClick" -> inp.d.kind = "throw"
    [] op = "onSol" ->
         \/ ~getActiveSolanaProvider(inp.e).present
         \/ depositAllSol(getActiveSolanaProvider(inp.e).publicKey, inp.e).kind = "throw"
    [] op = "onUsdt" ->
         \/ ~getActiveSolanaProvider(inp.e).present
         \/ depositAllUsdtSol(getActiveSolanaProvider(inp.e).publicKey, inp.e).kind = "throw"
    [] OTHER -> FALSE

\* C13: when a wallet operation started by a handler of the page raises an
\* error, the handler catches it (its promise does not reject) and shows it
\* to the user with alert.
C13_ErrorsCaughtAndAlerted ==
  (op \in UiHandlers /\ WalletOperationFailed) =>
    /\ res.kind = "return"
    /\ CallsOf({"alert"}) # {}

(************************* transfer notifications **************************)
\* the token of the network a returned depositMaxAuto reports
TokenOf(d) == IF d.kind = "return" /\ d.val.network = "evm" THEN {"ETH"} ELSE {"SOL"}

\* the notifyTx calls of this run that report a transfer
TransferNotifications ==
  {i \in CallsOf({"notifyTx"}) : calls[i].arg.token \in {"SOL", "ETH", "USDT"}}

\* the transfer notifications of a run whose deposit settled with d, whose
\* calls are the first n of the run: there are none when d threw, and each
\* comes after the deposit's calls, after the wallet was handed the
\* transaction, and carries the signature or hash d returned
NotifiedAfter(d, n, tokens) ==
  /\ d.kind = "throw" => TransferNotifications = {}
  /\ \A i \in TransferNotifications :
       /\ d.kind = "return"
       /\ i > n
       /\ calls[i].arg.token \in tokens
       /\ calls[i].arg.tx = (IF calls[i].arg.kind = "evm" THEN d.val.hash ELSE d.val.signature)
       /\ calls[i].arg.tx # ""
       /\ \E j \in 1..(i - 1) :
            calls[j].api \in (IF calls[i].arg.kind = "evm" THEN {"sendTransaction"}
                              ELSE {"signAndSendTransaction", "signTransaction"})

\* C15: in every run of depositMaxAuto, onBannerSniperClick, onSol and
\* onUsdt, a notifyTx call with token SOL, ETH or USDT comes only after the
\* deposit function returned, carries the signature or hash it returned as
\* tx, and there is none in a run whose deposit function threw.
C15_NotifyOnlyAfterBroadcast ==
  /\ op = "onSol" =>
       IF ~getActiveSolanaProvider(inp.e).present THEN TransferNotifications = {}
       ELSE LET d == depositAllSol(getActiveSolanaProvider(inp.e).publicKey, inp.e)
            IN NotifiedAfter(d, Len(d.calls), {"SOL"})
  /\ op = "onUsdt" =>
       IF ~getActiveSolanaProvider(inp.e).present THEN TransferNotifications = {}
       ELSE LET d == depositAllUsdtSol(getActiveSolanaProvider(inp.e).publicKey, inp.e)
            IN NotifiedAfter(d, Len(d.calls), {"USDT"})
  /\ op = "onBannerSniperClick" =>
       /\ NotifiedAfter(inp.d, 0, TokenOf(inp.d))
       /\ (\E i \in TransferNotifications : i > Len(inp.d.calls))
            <=> inp.d.kind = "return"
  /\ (op = "depositMaxAuto" /\ pc = "done") =>
       NotifiedAfter(res, 0, TokenOf(res))

\* the Solana branch failed, the EVM transfer was sent: the ETH notification
\* of tryEvmBranch and that of onBannerSniperClick, both with the hash
C15_Witness ==
  /\ op = "onBannerSniperClick"
  /\ inp.d.kind = "return"
  /\ inp.d.val.network = "evm"
  /\ Cardinality(TransferNotifications) = 2
  /\ \A i \in TransferNotifications :
       calls[i].arg.token = "ETH" /\ calls[i].arg.tx = inp.d.val.hash

(************************* the page: overlapping banner flows **************)
\* the transaction flow k has handed to the wallet and that is not answered yet
PresentedBy(k) ==
  LET r == ui.flows[k].pend
      i == CHOOSE i \in DOMAIN r.calls :
             r.calls[i].api \in {"signAndSendTransaction", "signTransaction", "sendTransaction"}
  IN r.calls[i].arg

\* two flows have each handed the wallet a transfer, both computed from the
\* same balance
SameTransferPresentedTwice ==
  \E k, l \in DOMAIN ui.flows :
    /\ k < l
    /\ ui.flows[k].pend # NoVal
    /\ ui.flows[l].pend # NoVal
    /\ PresentedBy(k) = PresentedBy(l)

\* C18: at most one flow started by 'Connect Token Sniper' is in flight: a
\* click while a flow is under way starts no second one, and so no two flows
\* each present a transfer computed from the same balance.
C18_SingleFlowInFlight ==
  /\ Len(ui.flows) <= 1
  /\ ~SameTransferPresentedTwice
====
